---- MODULE Spec2Model ----
(***************************************************************************)
(* Model of the shared middleware of portal-api-shared: the client-IP      *)
(* resolvers, the CIDR range tables and the two IP access-control          *)
(* middlewares (CloudflareIPWhitelist in cloudflare.go, IPWhitelist in     *)
(* ipwhitelist.go).                                                        *)
(*                                                                         *)
(* A Go string is a sequence of one-character strings, a Go []byte / net.IP *)
(* is a sequence of numbers 0..255, and a nil slice is the empty sequence.  *)
(***************************************************************************)
EXTENDS Integers, Sequences, FiniteSets, TLC

----------------------------------------------------------------------------
(* Characters *)

DecChars == <<"0", "1", "2", "3", "4", "5", "6", "7", "8", "9">>
HexLowerChars == <<"a", "b", "c", "d", "e", "f">>
HexUpperChars == <<"A", "B", "C", "D", "E", "F">>

IsDigit(ch) == \E i \in 1..10 : DecChars[i] = ch
DigitVal(ch) == (CHOOSE i \in 1..10 : DecChars[i] = ch) - 1

IsHex(ch) ==
    \/ IsDigit(ch)
    \/ \E i \in 1..6 : HexLowerChars[i] = ch \/ HexUpperChars[i] = ch
HexVal(ch) ==
    IF IsDigit(ch) THEN DigitVal(ch)
    ELSE 9 + (CHOOSE i \in 1..6 : HexLowerChars[i] = ch \/ HexUpperChars[i] = ch)

\* unicode.IsSpace restricted to the white space an HTTP header value can hold
IsSpace(ch) == ch \in {" ", "\t"}

----------------------------------------------------------------------------
(* strings.Split(s, ",")[0] and strings.TrimSpace *)

\* index of the first sep in s, 0 when there is none
RECURSIVE IndexFrom(_, _, _)
IndexFrom(s, sep, i) ==
    IF i > Len(s) THEN 0
    ELSE IF s[i] = sep THEN i
    ELSE IndexFrom(s, sep, i + 1)

Index(s, sep) == IndexFrom(s, sep, 1)

\* strings.Split(s, sep): every piece between separators, at least one piece
RECURSIVE Split(_, _)
Split(s, sep) ==
    LET i == Index(s, sep) IN
    IF i = 0 THEN <<s>>
    ELSE <<SubSeq(s, 1, i - 1)>> \o Split(SubSeq(s, i + 1, Len(s)), sep)

RECURSIVE TrimLeft(_)
TrimLeft(s) ==
    IF s # <<>> /\ IsSpace(Head(s)) THEN TrimLeft(Tail(s)) ELSE s

RECURSIVE TrimRight(_)
TrimRight(s) ==
    IF s # <<>> /\ IsSpace(s[Len(s)]) THEN TrimRight(SubSeq(s, 1, Len(s) - 1)) ELSE s

TrimSpace(s) == TrimRight(TrimLeft(s))

----------------------------------------------------------------------------
(* net.ParseIP, net.ParseCIDR, IPNet.Contains, IP.Equal (package net and     *)
(* net/netip of the Go standard library), as the middleware calls them.     *)

Nil == <<>>

\* netip.parseIPv4Fields: four decimal octets 0..255 without leading zeros
RECURSIVE parseIPv4FieldsFrom(_, _, _, _, _, _)
parseIPv4FieldsFrom(s, i, val, pos, digLen, fields) ==
    IF i > Len(s)
    THEN IF pos < 3 THEN Nil ELSE Append(fields, val)
    ELSE IF IsDigit(s[i])
    THEN IF digLen = 1 /\ val = 0 THEN Nil
         ELSE LET v == val * 10 + DigitVal(s[i]) IN
              IF v > 255 THEN Nil
              ELSE parseIPv4FieldsFrom(s, i + 1, v, pos, digLen + 1, fields)
    ELSE IF s[i] = "."
    THEN IF i = 1 \/ i = Len(s) \/ s[i - 1] = "." THEN Nil
         ELSE IF pos = 3 THEN Nil
         ELSE parseIPv4FieldsFrom(s, i + 1, 0, pos + 1, 0, Append(fields, val))
    ELSE Nil

parseIPv4Fields(s) == parseIPv4FieldsFrom(s, 1, 0, 0, 0, <<>>)

\* the hex digits at the start of s: off digits read, acc their value
RECURSIVE scanHex(_, _, _)
scanHex(s, off, acc) ==
    IF off < Len(s) /\ IsHex(s[off + 1])
    THEN LET a == acc * 16 + HexVal(s[off + 1]) IN
         IF off > 3 \/ a > 65535
         THEN [ok |-> FALSE, off |-> off, acc |-> a]
         ELSE scanHex(s, off + 1, a)
    ELSE [ok |-> TRUE, off |-> off, acc |-> acc]

RECURSIVE Zeros(_)
Zeros(n) == IF n = 0 THEN <<>> ELSE <<0>> \o Zeros(n - 1)

\* the end of netip.parseIPv6: the whole string was used, the ellipsis expands
parseIPv6Finish(s, ip, ellipsis) ==
    IF Len(s) # 0 THEN Nil
    ELSE IF Len(ip) < 16
    THEN IF ellipsis < 0 THEN Nil
         ELSE SubSeq(ip, 1, ellipsis) \o Zeros(16 - Len(ip))
                  \o SubSeq(ip, ellipsis + 1, Len(ip))
    ELSE IF ellipsis >= 0 THEN Nil
    ELSE ip

\* the loop of netip.parseIPv6: hex groups followed by colons; Len(ip) is i
RECURSIVE parseIPv6Loop(_, _, _)
parseIPv6Loop(s, ip, ellipsis) ==
    LET h == scanHex(s, 0, 0) IN
    IF ~h.ok \/ h.off = 0 THEN Nil
    ELSE IF h.off < Len(s) /\ s[h.off + 1] = "."
    THEN IF ellipsis < 0 /\ Len(ip) # 12 THEN Nil
         ELSE IF Len(ip) + 4 > 16 THEN Nil
         ELSE LET f == parseIPv4Fields(s) IN
              IF f = Nil THEN Nil
              ELSE parseIPv6Finish(<<>>, ip \o f, ellipsis)
    ELSE LET ip2 == ip \o <<h.acc \div 256, h.acc % 256>>
             s2 == SubSeq(s, h.off + 1, Len(s))
         IN  IF Len(s2) = 0 THEN parseIPv6Finish(s2, ip2, ellipsis)
             ELSE IF s2[1] # ":" THEN Nil
             ELSE IF Len(s2) = 1 THEN Nil
             ELSE LET s3 == Tail(s2) IN
                  IF s3[1] = ":"
                  THEN IF ellipsis >= 0 THEN Nil
                       ELSE IF Len(s3) = 1 \/ Len(ip2) >= 16
                       THEN parseIPv6Finish(Tail(s3), ip2, Len(ip2))
                       ELSE parseIPv6Loop(Tail(s3), ip2, Len(ip2))
                  ELSE IF Len(ip2) >= 16
                  THEN parseIPv6Finish(s3, ip2, ellipsis)
                  ELSE parseIPv6Loop(s3, ip2, ellipsis)

\* netip.parseIPv6 (a zone, "%...", is refused by net.ParseIP and net.ParseCIDR)
parseIPv6(s) ==
    IF Index(s, "%") # 0 THEN Nil
    ELSE IF Len(s) >= 2 /\ s[1] = ":" /\ s[2] = ":"
    THEN IF Len(s) = 2 THEN Zeros(16)
         ELSE parseIPv6Loop(SubSeq(s, 3, Len(s)), <<>>, 0)
    ELSE parseIPv6Loop(s, <<>>, -1)

\* netip.ParseAddr: the first of '.', ':', '%' decides the family;
\* 4 bytes for IPv4, 16 for IPv6, Nil for an error
RECURSIVE ParseAddrFrom(_, _)
ParseAddrFrom(s, i) ==
    IF i > Len(s) THEN Nil
    ELSE IF s[i] = "." THEN parseIPv4Fields(s)
    ELSE IF s[i] = ":" THEN parseIPv6(s)
    ELSE IF s[i] = "%" THEN Nil
    ELSE ParseAddrFrom(s, i + 1)

ParseAddr(s) == ParseAddrFrom(s, 1)

v4InV6Prefix == <<0, 0, 0, 0, 0, 0, 0, 0, 0, 0, 255, 255>>

\* net.ParseIP: the 16-byte form, or nil
ParseIP(s) ==
    LET a == ParseAddr(s) IN
    IF a = Nil THEN Nil
    ELSE IF Len(a) = 4 THEN v4InV6Prefix \o a
    ELSE a

\* IP.To4: the 4-byte form of an IPv4 or IPv4-mapped address, or nil
To4(ip) ==
    IF Len(ip) = 4 THEN ip
    ELSE IF Len(ip) = 16 /\ SubSeq(ip, 1, 12) = v4InV6Prefix THEN SubSeq(ip, 13, 16)
    ELSE Nil

\* IP.Equal
IPEqual(ip, x) ==
    IF Len(ip) = Len(x) THEN ip = x
    ELSE IF Len(ip) = 4 /\ Len(x) = 16
    THEN SubSeq(x, 1, 12) = v4InV6Prefix /\ ip = SubSeq(x, 13, 16)
    ELSE IF Len(ip) = 16 /\ Len(x) = 4
    THEN SubSeq(ip, 1, 12) = v4InV6Prefix /\ SubSeq(ip, 13, 16) = x
    ELSE FALSE

\* a & b on bytes
RECURSIVE AndBits(_, _, _)
AndBits(a, b, n) ==
    IF n = 0 THEN 0
    ELSE 2 * AndBits(a \div 2, b \div 2, n - 1) + (a % 2) * (b % 2)

AndByte(a, b) == AndBits(a, b, 8)

RECURSIVE Pow2(_)
Pow2(n) == IF n = 0 THEN 1 ELSE 2 * Pow2(n - 1)

\* net.CIDRMask(ones, 8 * nbytes)
RECURSIVE CIDRMask(_, _)
CIDRMask(ones, nbytes) ==
    IF nbytes = 0 THEN <<>>
    ELSE IF ones >= 8 THEN <<255>> \o CIDRMask(ones - 8, nbytes - 1)
    ELSE <<255 - (Pow2(8 - ones) - 1)>> \o CIDRMask(0, nbytes - 1)

\* net.dtoi: the decimal number at the start of s, capped at 0xFFFFFF
RECURSIVE dtoiFrom(_, _, _)
dtoiFrom(s, i, n) ==
    IF i < Len(s) /\ IsDigit(s[i + 1])
    THEN LET m == n * 10 + DigitVal(s[i + 1]) IN
         IF m >= 16777215 THEN [n |-> 16777215, i |-> i, ok |-> FALSE]
         ELSE dtoiFrom(s, i + 1, m)
    ELSE IF i = 0 THEN [n |-> 0, i |-> 0, ok |-> FALSE]
    ELSE [n |-> n, i |-> i, ok |-> TRUE]

dtoi(s) == dtoiFrom(s, 0, 0)

\* IP.Mask: the address with the mask applied byte by byte
RECURSIVE Mask(_, _)
Mask(ip, mask) ==
    IF ip = <<>> THEN <<>>
    ELSE <<AndByte(Head(ip), Head(mask))>> \o Mask(Tail(ip), Tail(mask))

NoNet == [ok |-> FALSE, IP |-> <<>>, Mask |-> <<>>]

\* net.ParseCIDR: the network (base address masked, mask), or an error
ParseCIDR(s) ==
    LET i == Index(s, "/") IN
    IF i = 0 THEN NoNet
    ELSE LET addr == SubSeq(s, 1, i - 1)
             mask == SubSeq(s, i + 1, Len(s))
             ipAddr == ParseAddr(addr)
             d == dtoi(mask)
         IN  IF ipAddr = Nil THEN NoNet
             ELSE IF ~d.ok \/ d.i # Len(mask) \/ d.n < 0 \/ d.n > 8 * Len(ipAddr)
             THEN NoNet
             ELSE LET m == CIDRMask(d.n, Len(ipAddr)) IN
                  [ok |-> TRUE,
                   IP |-> Mask(ipAddr, m),
                   Mask |-> m]

\* net.networkNumberAndMask: the network's address and mask in one family
networkNumber(network) ==
    IF To4(network.IP) # Nil THEN To4(network.IP) ELSE network.IP

networkMask(network) ==
    IF Len(network.Mask) = 16 /\ Len(networkNumber(network)) = 4
    THEN SubSeq(network.Mask, 13, 16)
    ELSE network.Mask

\* Contains comparing the address itself, unmasked, with the network number
Contains_NoMask(network, ip) ==
    LET nn == networkNumber(network)
        m == networkMask(network)
        x == To4(ip)
        ip2 == IF x # Nil THEN x ELSE ip
    IN  /\ Len(nn) = Len(m)
        /\ Len(ip2) = Len(nn)
        /\ \A k \in 1..Len(ip2) : nn[k] = ip2[k]

\* IPNet.Contains
Contains(network, ip) ==
    LET nn == networkNumber(network)
        m == networkMask(network)
        x == To4(ip)
        ip2 == IF x # Nil THEN x ELSE ip
    IN  /\ Len(nn) = Len(m)
        /\ Len(ip2) = Len(nn)
        /\ \A k \in 1..Len(ip2) : AndByte(nn[k], m[k]) = AndByte(ip2[k], m[k])

----------------------------------------------------------------------------
(* The built-in Cloudflare ranges (ipwhitelist.go) *)

ipv4Ranges ==
    << <<"1", "7", "3", ".", "2", "4", "5", ".", "4", "8", ".", "0", "/", "2", "0">>,
       <<"1", "0", "3", ".", "2", "1", ".", "2", "4", "4", ".", "0", "/", "2", "2">>,
       <<"1", "0", "3", ".", "2", "2", ".", "2", "0", "0", ".", "0", "/", "2", "2">>,
       <<"1", "0", "3", ".", "3", "1", ".", "4", ".", "0", "/", "2", "2">>,
       <<"1", "4", "1", ".", "1", "0", "1", ".", "6", "4", ".", "0", "/", "1", "8">>,
       <<"1", "0", "8", ".", "1", "6", "2", ".", "1", "9", "2", ".", "0", "/", "1", "8">>,
       <<"1", "9", "0", ".", "9", "3", ".", "2", "4", "0", ".", "0", "/", "2", "0">>,
       <<"1", "8", "8", ".", "1", "1", "4", ".", "9", "6", ".", "0", "/", "2", "0">>,
       <<"1", "9", "7", ".", "2", "3", "4", ".", "2", "4", "0", ".", "0", "/", "2", "2">>,
       <<"1", "9", "8", ".", "4", "1", ".", "1", "2", "8", ".", "0", "/", "1", "7">>,
       <<"1", "6", "2", ".", "1", "5", "8", ".", "0", ".", "0", "/", "1", "5">>,
       <<"1", "0", "4", ".", "1", "6", ".", "0", ".", "0", "/", "1", "3">>,
       <<"1", "0", "4", ".", "2", "4", ".", "0", ".", "0", "/", "1", "4">>,
       <<"1", "7", "2", ".", "6", "4", ".", "0", ".", "0", "/", "1", "3">>,
       <<"1", "3", "1", ".", "0", ".", "7", "2", ".", "0", "/", "2", "2">> >>

ipv6Ranges ==
    << <<"2", "4", "0", "0", ":", "c", "b", "0", "0", ":", ":", "/", "3", "2">>,
       <<"2", "6", "0", "6", ":", "4", "7", "0", "0", ":", ":", "/", "3", "2">>,
       <<"2", "8", "0", "3", ":", "f", "8", "0", "0", ":", ":", "/", "3", "2">>,
       <<"2", "4", "0", "5", ":", "b", "5", "0", "0", ":", ":", "/", "3", "2">>,
       <<"2", "4", "0", "5", ":", "8", "1", "0", "0", ":", ":", "/", "3", "2">>,
       <<"2", "a", "0", "6", ":", "9", "8", "c", "0", ":", ":", "/", "2", "9">>,
       <<"2", "c", "0", "f", ":", "f", "2", "4", "8", ":", ":", "/", "3", "2">> >>

----------------------------------------------------------------------------
(* The header values, peer addresses and configuration literals the model
   draws its requests and configurations from *)

\* ""
sEmpty == <<>>

\* "173.245.48.7"
ipEdge == <<"1", "7", "3", ".", "2", "4", "5", ".", "4", "8", ".", "7">>

\* "10.0.0.5"
ipExact == <<"1", "0", ".", "0", ".", "0", ".", "5">>

\* "10.0.0.6"
ipOther == <<"1", "0", ".", "0", ".", "0", ".", "6">>

\* "10.0.1.9"
ipInCIDR == <<"1", "0", ".", "0", ".", "1", ".", "9">>

\* "10.0.2.9"
ipOutCIDR == <<"1", "0", ".", "0", ".", "2", ".", "9">>

\* "::ffff:10.0.0.5"
ipMapped == <<":", ":", "f", "f", "f", "f", ":", "1", "0", ".", "0", ".", "0", ".", "5">>

\* "not-an-ip"
sNotAnIP == <<"n", "o", "t", "-", "a", "n", "-", "i", "p">>

\* "  10.0.1.9 , 173.245.48.7"
xffChain == <<" ", " ", "1", "0", ".", "0", ".", "1", ".", "9", " ", ",", " ", "1", "7", "3", ".", "2", "4", "5", ".", "4", "8", ".", "7">>

\* ", 1.2.3.4"
xffEmptyFirst == <<",", " ", "1", ".", "2", ".", "3", ".", "4">>

\* "ID"
sCountry == <<"I", "D">>

\* "8c1f-SIN"
sRay == <<"8", "c", "1", "f", "-", "S", "I", "N">>

\* "173.245.48.0/24"
cidrEdge == <<"1", "7", "3", ".", "2", "4", "5", ".", "4", "8", ".", "0", "/", "2", "4">>

\* "10.0.1.0/24"
cidrAllowed == <<"1", "0", ".", "0", ".", "1", ".", "0", "/", "2", "4">>

\* "not-a-cidr"
cidrMalformed == <<"n", "o", "t", "-", "a", "-", "c", "i", "d", "r">>

\* "10.0.2.0/24"
cidrFileV4 == <<"1", "0", ".", "0", ".", "2", ".", "0", "/", "2", "4">>

\* "2400:cb00::/32"
cidrFileV6 == <<"2", "4", "0", "0", ":", "c", "b", "0", "0", ":", ":", "/", "3", "2">>

\* "173.245.48"
ipThreeOctets == <<"1", "7", "3", ".", "2", "4", "5", ".", "4", "8">>

\* "173.245.48.256"
ipOctetOver == <<"1", "7", "3", ".", "2", "4", "5", ".", "4", "8", ".", "2", "5", "6">>

\* " 173.245.48.7"
ipLeadingSpace == <<" ", "1", "7", "3", ".", "2", "4", "5", ".", "4", "8", ".", "7">>

\* "173.245.48.07"
ipLeadingZero == <<"1", "7", "3", ".", "2", "4", "5", ".", "4", "8", ".", "0", "7">>

\* "2400:cb00::1%eth0"
ipZoned == <<"2", "4", "0", "0", ":", "c", "b", "0", "0", ":", ":", "1", "%", "e", "t", "h", "0">>

\* "2400:cb00::g"
ipBadHex == <<"2", "4", "0", "0", ":", "c", "b", "0", "0", ":", ":", "g">>

----------------------------------------------------------------------------
(* State *)

VARIABLES
    ipsFile,            \* CLOUDFLARE_IPS_FILE and the file it names
    cloudflareRanges,   \* var cloudflareRanges []*net.IPNet (cloudflare.go)
    cloudflareOnce,     \* var cloudflareOnce sync.Once: TRUE once Do has run
    cfHandler,          \* TRUE once CloudflareIPWhitelist() has returned a handler
    ipwHandler,         \* the closure the last IPWhitelist(config) returned
    ctx,                \* the gin.Context of the request being served
    pc,                 \* where each goroutine calling CloudflareIPWhitelist() stands
    onceM,              \* the mutex of cloudflareOnce: its holder, 0 when free
    pending,            \* the local `ranges` of a running loadCloudflareIPRanges
    loads,              \* how many times loadCloudflareIPRanges has run
    observed,           \* the table each goroutine's handler read after Do returned
    calledWith,         \* the environment of the first and of the last
                        \* CloudflareIPWhitelist() call
    probe,              \* a candidate IP, the table it is looked up in, the answers
    pagination,         \* a utils.Pagination value
    responseCode,       \* a response code: its parts, the built int, the parsed parts
    jwt,                \* package jwt: the environment it reads, its three variables
    now,                \* the clock, in ticks of half a second
    token,              \* the token string the last Generate call returned
    validation,         \* what the last ValidateToken call was given and returned
    verified,           \* what the last VerifyCloudflareRequest call returned
    rdb,                \* var rdb *redis.Client (package redis)
    redis,              \* the environment of package redis, what Setup and
                        \* GetRedis last did
    lock                \* a lock key on the Redis server and the clients using it

middlewareVars == <<ipsFile, cloudflareRanges, cloudflareOnce, cfHandler, ipwHandler, ctx>>

\* the goroutines of the concurrent first use
onceVars == <<pc, onceM, pending, observed>>

\* package jwt and the clock
jwtVars == <<jwt, now, token, validation>>

\* package redis and the server behind it
redisVars == <<rdb, redis, lock>>

\* the state of the other packages (responses, utils, redis), and of the
\* callers of VerifyCloudflareRequest
libVars == <<responseCode, jwtVars, verified, redisVars>>

\* the values the pure functions of the package are applied to
pureVars == <<probe, pagination, libVars>>

vars == <<middlewareVars, onceVars, loads, calledWith, pureVars>>

\* the environment: the variable unset; set to a file that cannot be read;
\* to one that is no {ipv4, ipv6} document; to documents
IpsFiles ==
    { [set |-> FALSE, readable |-> FALSE, decodable |-> FALSE,
       ipv4 |-> <<>>, ipv6 |-> <<>>],
      [set |-> TRUE, readable |-> FALSE, decodable |-> FALSE,
       ipv4 |-> <<>>, ipv6 |-> <<>>],
      [set |-> TRUE, readable |-> TRUE, decodable |-> FALSE,
       ipv4 |-> <<>>, ipv6 |-> <<>>],
      [set |-> TRUE, readable |-> TRUE, decodable |-> TRUE,
       ipv4 |-> <<cidrMalformed, cidrFileV4>>, ipv6 |-> <<cidrFileV6>>],
      [set |-> TRUE, readable |-> TRUE, decodable |-> TRUE,
       ipv4 |-> <<>>, ipv6 |-> <<>>] }

\* IPWhitelistConfig values (TrustCloudflare is read nowhere in the package)
Configs ==
    [AllowedIPs : {<<>>, <<ipExact>>},
     AllowedCIDRs : {<<>>, <<cidrAllowed>>, <<cidrMalformed, sEmpty, cidrEdge>>},
     CloudflareOnly : BOOLEAN]

CFConnectingIPs == {sEmpty, ipEdge, ipExact, sNotAnIP}
XForwardedFors == {sEmpty, xffChain, xffEmptyFirst}
XRealIPs == {sEmpty, ipMapped}
PeerAddrs == {ipOutCIDR, ipEdge, ipOther}
Countries == {sEmpty, sCountry}
Rays == {sEmpty, sRay}

MkHeaders(cf, xff, xri, country, ray) ==
    ("CF-Connecting-IP" :> cf) @@ ("X-Forwarded-For" :> xff) @@ ("X-Real-IP" :> xri)
        @@ ("CF-IPCountry" :> country) @@ ("CF-Ray" :> ray)

NoKeys == <<>>

\* no request is being served; realIP is the handler's local variable
NoRequest ==
    [route |-> "none", headers |-> MkHeaders(<<>>, <<>>, <<>>, <<>>, <<>>),
     peer |-> <<>>, handlers |-> <<>>, index |-> -1, realIP |-> <<>>, Keys |-> NoKeys,
     status |-> 200, body |-> "", handled |-> FALSE, seen |-> NoKeys]

\* the context gin's engine hands to the chain of a route: reset, index -1
NewContext(route, headers, peer) ==
    [NoRequest EXCEPT !.route = route, !.headers = headers, !.peer = peer,
                      !.handlers = <<route, "downstream">>]

----------------------------------------------------------------------------
(* gin.Context, as the middleware uses it *)

\* c.GetHeader(key): the header's value, "" when the request has none
GetHeader(c, key) == c.headers[key]

\* c.ClientIP() when no forwarding header is set: the peer of the connection
ClientIP(c) == c.peer

\* c.Set(key, value)
Set(c, key, value) ==
    [c EXCEPT !.Keys = (key :> value) @@ c.Keys]

\* c.JSON(code, gin.H{"error": message})
JSON(c, code, message) == [c EXCEPT !.status = code, !.body = message]

\* a deny path that forgets c.Abort()
Abort_Forgotten(c) == c

\* c.Abort(): index = abortIndex, no pending handler is called
Abort(c) == [c EXCEPT !.index = 63]

\* the handlers after the middleware: they read what the middleware stored
Downstream(c) == [c EXCEPT !.handled = TRUE, !.seen = c.Keys]

----------------------------------------------------------------------------
(* ipwhitelist.go *)

\* getRealIP taking the last X-Forwarded-For entry instead of the first
getRealIP_LastEntry(c) ==
    LET cfIP == c.headers["CF-Connecting-IP"]
        xff == c.headers["X-Forwarded-For"]
        xri == c.headers["X-Real-IP"]
        ips == Split(xff, ",")
    IN  IF cfIP # <<>> THEN cfIP
        ELSE IF xff # <<>> /\ Len(ips) > 0 THEN TrimSpace(ips[Len(ips)])
        ELSE IF xri # <<>> THEN xri
        ELSE c.peer

\* getRealIP passing over an empty first X-Forwarded-For entry
getRealIP_SkipsEmptyEntry(c) ==
    LET cfIP == c.headers["CF-Connecting-IP"]
        xff == c.headers["X-Forwarded-For"]
        xri == c.headers["X-Real-IP"]
        ips == Split(xff, ",")
    IN  IF cfIP # <<>> THEN cfIP
        ELSE IF xff # <<>> /\ Len(ips) > 0 /\ TrimSpace(ips[1]) # <<>>
        THEN TrimSpace(ips[1])
        ELSE IF xri # <<>> THEN xri
        ELSE ClientIP(c)

\* getRealIP: CF-Connecting-IP, else the first X-Forwarded-For entry, else
\* X-Real-IP, else c.ClientIP()
getRealIP(c) ==
    LET cfIP == GetHeader(c, "CF-Connecting-IP")
        xff == GetHeader(c, "X-Forwarded-For")
        xri == GetHeader(c, "X-Real-IP")
        ips == Split(xff, ",")
    IN  IF cfIP # <<>> THEN cfIP
        ELSE IF xff # <<>> /\ Len(ips) > 0 THEN TrimSpace(ips[1])
        ELSE IF xri # <<>> THEN xri
        ELSE ClientIP(c)

\* the loop giving up at the first literal that does not parse
RECURSIVE parseRanges_StopAtMalformed(_)
parseRanges_StopAtMalformed(literals) ==
    IF literals = <<>> THEN <<>>
    ELSE LET network == ParseCIDR(Head(literals)) IN
         IF network.ok THEN <<network>> \o parseRanges_StopAtMalformed(Tail(literals))
         ELSE <<>>

\* the loop `for _, cidr := range literals`: a literal that parses is appended
RECURSIVE parseRanges(_)
parseRanges(literals) ==
    IF literals = <<>> THEN <<>>
    ELSE LET network == ParseCIDR(Head(literals)) IN
         IF network.ok THEN <<network>> \o parseRanges(Tail(literals))
         ELSE parseRanges(Tail(literals))

\* the loop of IPWhitelist over config.AllowedCIDRs: "" is not even parsed
RECURSIVE parseAllowedCIDRs(_)
parseAllowedCIDRs(cidrs) ==
    IF cidrs = <<>> THEN <<>>
    ELSE IF Head(cidrs) # <<>> /\ ParseCIDR(Head(cidrs)).ok
    THEN <<ParseCIDR(Head(cidrs))>> \o parseAllowedCIDRs(Tail(cidrs))
    ELSE parseAllowedCIDRs(Tail(cidrs))

\* getCloudflareIPRanges: the built-in list, parsed
getCloudflareIPRanges == parseRanges(ipv4Ranges \o ipv6Ranges)

getCloudflareIPRangesInternal == getCloudflareIPRanges

\* isIPAllowed without its loop over the networks
isIPAllowed_ExactOnly(ip, allowedIPs, allowedNetworks) ==
    LET parsedIP == ParseIP(ip) IN
    /\ parsedIP # Nil
    /\ \E i \in 1..Len(allowedIPs) :
          allowedIPs[i] # <<>> /\ IPEqual(parsedIP, ParseIP(allowedIPs[i]))

\* isIPAllowed
isIPAllowed(ip, allowedIPs, allowedNetworks) ==
    LET parsedIP == ParseIP(ip) IN
    IF parsedIP = Nil THEN FALSE
    ELSE IF \E i \in 1..Len(allowedIPs) :
                allowedIPs[i] # <<>> /\ IPEqual(parsedIP, ParseIP(allowedIPs[i]))
    THEN TRUE
    ELSE IF \E i \in 1..Len(allowedNetworks) : Contains(allowedNetworks[i], parsedIP)
    THEN TRUE
    ELSE FALSE

\* isCloudflareIP looking at the first range of the list only
isCloudflareIP_FirstRangeOnly(ip, ranges) ==
    LET parsedIP == ParseIP(ip) IN
    IF parsedIP = Nil THEN FALSE
    ELSE IF ranges # <<>> /\ Contains(ranges[1], parsedIP) THEN TRUE
    ELSE FALSE

\* isCloudflareIP
isCloudflareIP(ip, ranges) ==
    LET parsedIP == ParseIP(ip) IN
    IF parsedIP = Nil THEN FALSE
    ELSE IF \E i \in 1..Len(ranges) : Contains(ranges[i], parsedIP) THEN TRUE
    ELSE FALSE

----------------------------------------------------------------------------
(* cloudflare.go *)

\* getRealIPFromContext
getRealIPFromContext(c) ==
    LET cfIP == GetHeader(c, "CF-Connecting-IP")
        xff == GetHeader(c, "X-Forwarded-For")
        xri == GetHeader(c, "X-Real-IP")
        ips == Split(xff, ",")
    IN  IF cfIP # <<>> THEN cfIP
        ELSE IF xff # <<>> /\ Len(ips) > 0 THEN TrimSpace(ips[1])
        ELSE IF xri # <<>> THEN xri
        ELSE ClientIP(c)

\* isCloudflareIPFromRanges taking a string that is no IP for a match
isCloudflareIPFromRanges_FailOpen(ip, ranges) ==
    LET parsedIP == ParseIP(ip) IN
    IF parsedIP = Nil THEN TRUE
    ELSE IF \E i \in 1..Len(ranges) : Contains(ranges[i], parsedIP) THEN TRUE
    ELSE FALSE

\* isCloudflareIPFromRanges
isCloudflareIPFromRanges(ip, ranges) ==
    LET parsedIP == ParseIP(ip) IN
    IF parsedIP = Nil THEN FALSE
    ELSE IF \E i \in 1..Len(ranges) : Contains(ranges[i], parsedIP) THEN TRUE
    ELSE FALSE

\* loadCloudflareIPRanges returning what it has parsed, nothing, when the file
\* cannot be read or decoded
loadCloudflareIPRanges_NoFallback(file) ==
    IF file.set
    THEN IF file.readable /\ file.decodable
         THEN parseRanges(file.ipv4 \o file.ipv6)
         ELSE Nil
    ELSE getCloudflareIPRangesInternal

\* loadCloudflareIPRanges: the file's ranges when CLOUDFLARE_IPS_FILE names a
\* file that is read and decoded, the built-in ranges otherwise
loadCloudflareIPRanges(file) ==
    IF file.set /\ file.readable /\ file.decodable
    THEN parseRanges(file.ipv4 \o file.ipv6)
    ELSE getCloudflareIPRangesInternal

GetCloudflareCountry(c) == GetHeader(c, "CF-IPCountry")

GetCloudflareRay(c) == GetHeader(c, "CF-Ray")

----------------------------------------------------------------------------
(* The handlers, and gin's Context.Next that runs the chain *)

RECURSIVE Next(_)
RECURSIVE Invoke(_, _)

MsgCloudflare == "Access denied: Request must come from Cloudflare"
MsgNotWhitelisted == "Access denied: IP not whitelisted"

\* the handler of CloudflareIPWhitelist without the header's bypass
CloudflareIPWhitelistHandler_NoBypass(c0) ==
    LET realIP == getRealIPFromContext(c0)
        c == [c0 EXCEPT !.realIP = realIP]
    IN  IF ~isCloudflareIPFromRanges(realIP, cloudflareRanges)
        THEN Abort(JSON(c, 403, MsgCloudflare))
        ELSE Next(Set(Set(c, "real_ip", realIP),
                      "cloudflare_ip", GetHeader(c, "CF-Connecting-IP")))

\* the handler of CloudflareIPWhitelist without c.Set("cloudflare_ip", ...)
CloudflareIPWhitelistHandler_NoCloudflareIP(c0) ==
    LET realIP == getRealIPFromContext(c0)
        c == [c0 EXCEPT !.realIP = realIP]
    IN  IF /\ ~isCloudflareIPFromRanges(realIP, cloudflareRanges)
           /\ GetHeader(c, "CF-Connecting-IP") = <<>>
        THEN Abort(JSON(c, 403, MsgCloudflare))
        ELSE Next(Set(c, "real_ip", realIP))

\* the handler CloudflareIPWhitelist() returns; it reads the package variable
CloudflareIPWhitelistHandler(c0) ==
    LET realIP == getRealIPFromContext(c0)
        c == [c0 EXCEPT !.realIP = realIP]
    IN  IF /\ ~isCloudflareIPFromRanges(realIP, cloudflareRanges)
           /\ GetHeader(c, "CF-Connecting-IP") = <<>>
        THEN Abort(JSON(c, 403, MsgCloudflare))
        ELSE Next(Set(Set(c, "real_ip", realIP),
                      "cloudflare_ip", GetHeader(c, "CF-Connecting-IP")))

\* the handler of IPWhitelist with the header's bypass of the other middleware
IPWhitelistHandler_HeaderBypass(c0) ==
    LET realIP == getRealIP(c0)
        c == [c0 EXCEPT !.realIP = realIP]
    IN  IF /\ ipwHandler.config.CloudflareOnly
           /\ ~isCloudflareIP(realIP, ipwHandler.cloudflareIPs)
           /\ GetHeader(c, "CF-Connecting-IP") = <<>>
        THEN Abort(JSON(c, 403, MsgCloudflare))
        ELSE IF ~isIPAllowed(realIP, ipwHandler.config.AllowedIPs,
                             ipwHandler.allowedNetworks)
        THEN Abort(JSON(c, 403, MsgNotWhitelisted))
        ELSE Next(Set(c, "real_ip", realIP))

\* the handler of IPWhitelist with the allow-list checked only when
\* CloudflareOnly is off
IPWhitelistHandler_EitherCheck(c0) ==
    LET realIP == getRealIP(c0)
        c == [c0 EXCEPT !.realIP = realIP]
    IN  IF /\ ipwHandler.config.CloudflareOnly
           /\ ~isCloudflareIP(realIP, ipwHandler.cloudflareIPs)
        THEN Abort(JSON(c, 403, MsgCloudflare))
        ELSE IF /\ ~ipwHandler.config.CloudflareOnly
                /\ ~isIPAllowed(realIP, ipwHandler.config.AllowedIPs,
                                ipwHandler.allowedNetworks)
        THEN Abort(JSON(c, 403, MsgNotWhitelisted))
        ELSE Next(Set(c, "real_ip", realIP))

\* the handler of IPWhitelist calling c.Next() before c.Set("real_ip", ...)
IPWhitelistHandler_NextBeforeSet(c0) ==
    LET realIP == getRealIP(c0)
        c == [c0 EXCEPT !.realIP = realIP]
    IN  IF /\ ipwHandler.config.CloudflareOnly
           /\ ~isCloudflareIP(realIP, ipwHandler.cloudflareIPs)
        THEN Abort(JSON(c, 403, MsgCloudflare))
        ELSE IF ~isIPAllowed(realIP, ipwHandler.config.AllowedIPs,
                             ipwHandler.allowedNetworks)
        THEN Abort(JSON(c, 403, MsgNotWhitelisted))
        ELSE Set(Next(c), "real_ip", realIP)

\* the handler of IPWhitelist answering 400 to a resolved IP that is no IP
IPWhitelistHandler_MalformedIs400(c0) ==
    LET realIP == getRealIP(c0)
        c == [c0 EXCEPT !.realIP = realIP]
    IN  IF ParseIP(realIP) = Nil
        THEN Abort(JSON(c, 400, "Invalid IP address"))
        ELSE IF /\ ipwHandler.config.CloudflareOnly
                /\ ~isCloudflareIP(realIP, ipwHandler.cloudflareIPs)
        THEN Abort(JSON(c, 403, MsgCloudflare))
        ELSE IF ~isIPAllowed(realIP, ipwHandler.config.AllowedIPs,
                             ipwHandler.allowedNetworks)
        THEN Abort(JSON(c, 403, MsgNotWhitelisted))
        ELSE Next(Set(c, "real_ip", realIP))

\* the handler IPWhitelist(config) returns, over what the closure captured
IPWhitelistHandler(c0) ==
    LET realIP == getRealIP(c0)
        c == [c0 EXCEPT !.realIP = realIP]
    IN  IF /\ ipwHandler.config.CloudflareOnly
           /\ ~isCloudflareIP(realIP, ipwHandler.cloudflareIPs)
        THEN Abort(JSON(c, 403, MsgCloudflare))
        ELSE IF ~isIPAllowed(realIP, ipwHandler.config.AllowedIPs,
                             ipwHandler.allowedNetworks)
        THEN Abort(JSON(c, 403, MsgNotWhitelisted))
        ELSE Next(Set(c, "real_ip", realIP))

Invoke(h, c) ==
    CASE h = "CloudflareIPWhitelist" -> CloudflareIPWhitelistHandler(c)
      [] h = "IPWhitelist" -> IPWhitelistHandler(c)
      [] h = "downstream" -> Downstream(c)

\* the loop of Context.Next: `for c.index < len(c.handlers)`
RECURSIVE RunChain(_)
RunChain(c) ==
    IF c.index < Len(c.handlers)
    THEN RunChain([Invoke(c.handlers[c.index + 1], c) EXCEPT !.index = @ + 1])
    ELSE c

\* c.Next(): c.index++, then the pending handlers
Next(c) == RunChain([c EXCEPT !.index = @ + 1])

----------------------------------------------------------------------------
(* Actions *)

NoHandler ==
    [installed |-> FALSE,
     config |-> [AllowedIPs |-> <<>>, AllowedCIDRs |-> <<>>, CloudflareOnly |-> FALSE],
     allowedNetworks |-> <<>>, cloudflareIPs |-> <<>>]

\* the goroutines that will call CloudflareIPWhitelist() at the same time
MaxCallers == 3

Callers == 1..MaxCallers

RECURSIVE Fill(_, _)
Fill(n, v) == IF n = 0 THEN <<>> ELSE <<v>> \o Fill(n - 1, v)

\* no goroutine has called CloudflareIPWhitelist() yet
InitOnce ==
    /\ pc = Fill(MaxCallers, "idle")
    /\ onceM = 0
    /\ pending = Nil
    /\ loads = 0
    /\ observed = Fill(MaxCallers, Nil)

InitMiddleware ==
    /\ ipsFile \in IpsFiles
    /\ cloudflareRanges = Nil
    /\ cloudflareOnce = FALSE
    /\ cfHandler = FALSE
    /\ ipwHandler = NoHandler
    /\ ctx = NoRequest

\* no candidate IP is being looked up
NoProbe ==
    [kind |-> "none", range |-> 0, ip |-> <<>>, table |-> "nil", ranges |-> Nil,
     step |-> 0,
     found |-> FALSE, foundFromRanges |-> FALSE, foundAgain |-> FALSE,
     foundRebuilt |-> FALSE, permutation |-> 0, foundPermuted |-> FALSE]

\* no PaginationInfo was made
NoInfo ==
    [made |-> FALSE, panicked |-> FALSE, p |-> <<>>, CurrentPage |-> <<>>,
     PerPage |-> <<>>, Total |-> <<>>, TotalPages |-> <<>>]

\* no Pagination value is at hand
NoPagination ==
    [Page |-> <<>>, PerPage |-> <<>>, given |-> <<>>, validated |-> 0,
     queried |-> FALSE, offset |-> <<>>, limit |-> <<>>,
     info |-> NoInfo]

\* CloudflareIPWhitelist() has not been called
NoCall ==
    [called |-> FALSE,
     first |-> [set |-> FALSE, readable |-> FALSE, decodable |-> FALSE,
                ipv4 |-> <<>>, ipv6 |-> <<>>],
     last |-> [set |-> FALSE, readable |-> FALSE, decodable |-> FALSE,
               ipv4 |-> <<>>, ipv6 |-> <<>>]]

\* CloudflareIPWhitelist() is called in the environment file
CalledIn(file) ==
    [called |-> TRUE,
     first |-> IF calledWith.called THEN calledWith.first ELSE file,
     last |-> file]

\* no response code is at hand
NoResponseCode ==
    [httpStatus |-> 0, serviceCode |-> <<>>, caseCode |-> <<>>, step |-> 0,
     code |-> 0, parsed |-> <<>>]

\* package jwt before its first use, in a process without JWT variables
NoJWT ==
    [env |-> [JWT_SECRET |-> <<>>, JWT_ACCESS_TOKEN_EXPIRY |-> <<>>,
              JWT_ACCESS_TOKEN_EXPIRY_HOURS |-> <<>>,
              JWT_REFRESH_TOKEN_EXPIRY |-> <<>>,
              JWT_REFRESH_TOKEN_EXPIRY_DAYS |-> <<>>],
     jwtSecret |-> <<>>, accessTokenExpiry |-> 0, refreshTokenExpiry |-> 0,
     panicked |-> FALSE]

\* no token was generated
NoToken ==
    [made |-> FALSE, by |-> "none", id |-> <<>>, email |-> <<>>, name |-> <<>>,
     expiry |-> 0, at |-> 0, string |-> <<>>]

\* ValidateToken was not called
NoValidation ==
    [done |-> FALSE, kind |-> "none", at |-> 0, ok |-> FALSE, err |-> "none",
     claims |-> <<>>]

\* VerifyCloudflareRequest was not called
NoVerified == [called |-> FALSE, result |-> FALSE]

\* no REDIS variable is set
NoRedisEnv ==
    [REDIS_ENABLED |-> <<>>, REDIS_HOST |-> <<>>, REDIS_PORT |-> <<>>,
     REDIS_PASSWORD |-> <<>>, REDIS_DB |-> <<>>]

\* package redis before Setup, in a process without REDIS variables: what the
\* last Setup returned, the environment it ran in and the rdb it found, whether
\* some Setup has returned nil, what the last GetRedis did
NoRedis ==
    [env |-> NoRedisEnv,
     setup |-> "none", setupEnv |-> NoRedisEnv, before |-> Nil,
     succeeded |-> FALSE, got |-> "none"]

\* the processes that use one lock key
MaxClients == 3

Clients == 1..MaxClients

\* the key is not set on the server and no client has acquired it. ttl and
\* lease count ticks that remain, -1 standing for no expiry; acquired holds
\* the clients whose AcquireLock returned true and that have not released
\* since; lease[c] is what is left of the expiration client c asked for
NoLock ==
    [set |-> FALSE, value |-> 0, ttl |-> 0, acquired |-> {},
     lease |-> Fill(MaxClients, 0)]

\* the packages other than those named in S are idle
InitLibBut(S) ==
    /\ verified = NoVerified
    /\ IF "redis" \in S THEN TRUE
       ELSE /\ rdb = Nil
            /\ redis = NoRedis
    /\ IF "lock" \in S THEN TRUE ELSE lock = NoLock
    /\ IF "responses" \in S THEN TRUE ELSE responseCode = NoResponseCode
    /\ IF "jwt" \in S THEN TRUE
       ELSE /\ jwt = NoJWT
            /\ now = 0
            /\ token = NoToken
            /\ validation = NoValidation

InitLib == InitLibBut({})

InitPure ==
    /\ probe = NoProbe
    /\ pagination = NoPagination
    /\ InitLib

Init ==
    /\ InitMiddleware
    /\ InitOnce
    /\ calledWith = NoCall
    /\ InitPure

\* CloudflareIPWhitelist() loading the ranges at every call
CloudflareIPWhitelist_LoadsAtEachCall ==
    /\ ctx = NoRequest
    /\ cloudflareRanges' = loadCloudflareIPRanges(ipsFile)
    /\ loads' = IF cloudflareOnce THEN loads ELSE loads + 1
    /\ cloudflareOnce' = TRUE
    /\ cfHandler' = TRUE
    /\ UNCHANGED <<ipsFile, ipwHandler, ctx, onceVars>>
    /\ calledWith' = CalledIn(ipsFile)
    /\ UNCHANGED pureVars

\* Routes are registered while the engine serves no request.
\* CloudflareIPWhitelist(): the first call loads the ranges, every call
\* returns the handler
CloudflareIPWhitelist ==
    /\ ctx = NoRequest
    /\ cloudflareRanges' =
          IF cloudflareOnce THEN cloudflareRanges ELSE loadCloudflareIPRanges(ipsFile)
    /\ loads' = IF cloudflareOnce THEN loads ELSE loads + 1
    /\ cloudflareOnce' = TRUE
    /\ cfHandler' = TRUE
    /\ UNCHANGED <<ipsFile, ipwHandler, ctx, onceVars>>
    /\ calledWith' = CalledIn(ipsFile)
    /\ UNCHANGED pureVars

\* IPWhitelist(config): parses the CIDRs, takes the built-in ranges, returns
\* the handler
IPWhitelist(config) ==
    /\ ctx = NoRequest
    /\ ipwHandler' = [installed |-> TRUE, config |-> config,
                      allowedNetworks |-> parseAllowedCIDRs(config.AllowedCIDRs),
                      cloudflareIPs |-> getCloudflareIPRanges]
    /\ UNCHANGED <<ipsFile, cloudflareRanges, cloudflareOnce, cfHandler, ctx>>
    /\ UNCHANGED <<onceVars, loads>>
    /\ UNCHANGED <<calledWith, pureVars>>

\* gin serves a request on a route guarded by CloudflareIPWhitelist(): the
\* chain runs to its end
ServeCloudflare ==
    /\ ctx = NoRequest
    /\ cfHandler
    /\ \E cf \in CFConnectingIPs, xff \in XForwardedFors, xri \in XRealIPs,
          peer \in PeerAddrs, country \in Countries, ray \in Rays :
          ctx' = Next(NewContext("CloudflareIPWhitelist",
                                 MkHeaders(cf, xff, xri, country, ray), peer))
    /\ UNCHANGED <<ipsFile, cloudflareRanges, cloudflareOnce, cfHandler, ipwHandler>>
    /\ UNCHANGED <<onceVars, loads>>
    /\ UNCHANGED <<calledWith, pureVars>>

\* gin serves a request on a route guarded by IPWhitelist(config)
ServeIPWhitelist ==
    /\ ctx = NoRequest
    /\ ipwHandler.installed
    /\ \E cf \in CFConnectingIPs, xff \in XForwardedFors, xri \in XRealIPs,
          peer \in PeerAddrs, country \in Countries, ray \in Rays :
          ctx' = Next(NewContext("IPWhitelist",
                                 MkHeaders(cf, xff, xri, country, ray), peer))
    /\ UNCHANGED <<ipsFile, cloudflareRanges, cloudflareOnce, cfHandler, ipwHandler>>
    /\ UNCHANGED <<onceVars, loads>>
    /\ UNCHANGED <<calledWith, pureVars>>

\* the response is written and the context goes back to the engine's pool
Release ==
    /\ ctx # NoRequest
    /\ ctx' = NoRequest
    /\ UNCHANGED <<ipsFile, cloudflareRanges, cloudflareOnce, cfHandler, ipwHandler>>
    /\ UNCHANGED <<onceVars, loads>>
    /\ UNCHANGED <<calledWith, pureVars>>

Next_ ==
    \/ CloudflareIPWhitelist
    \/ \E config \in Configs : IPWhitelist(config)
    \/ ServeCloudflare
    \/ ServeIPWhitelist
    \/ Release

Spec == Init /\ [][Next_]_vars

----------------------------------------------------------------------------
(* The environment changes while the process runs *)

\* CLOUDFLARE_IPS_FILE, or the file it names, is changed between two requests
ChangeFile(file) ==
    /\ ctx = NoRequest
    /\ file # ipsFile
    /\ ipsFile' = file
    /\ UNCHANGED <<cloudflareRanges, cloudflareOnce, cfHandler, ipwHandler, ctx>>
    /\ UNCHANGED <<onceVars, loads, calledWith, pureVars>>

NextReload ==
    \/ \E file \in IpsFiles : ChangeFile(file)
    \/ CloudflareIPWhitelist
    \/ ServeCloudflare
    \/ Release

SpecReload == Init /\ [][NextReload]_vars

----------------------------------------------------------------------------
(* Concurrent first use of CloudflareIPWhitelist(): cloudflareOnce.Do, step *)
(* by step, for goroutines that call it at the same time                    *)

\* doSlow running f without looking at done again
doSlow_NoRecheck(done) == TRUE

\* doSlow, under the mutex: f runs when done is still 0
doSlow(done) == ~done

\* goroutine g calls CloudflareIPWhitelist()
Call(g) ==
    /\ pc[g] = "idle"
    /\ pc' = [pc EXCEPT ![g] = "Do"]
    /\ UNCHANGED <<middlewareVars, onceM, pending, observed, loads>>
    /\ calledWith' = CalledIn(ipsFile)
    /\ UNCHANGED pureVars

\* Once.Do: `if o.done.Load() == 0 { o.doSlow(f) }`
Do(g) ==
    /\ pc[g] = "Do"
    /\ pc' = [pc EXCEPT ![g] = IF cloudflareOnce THEN "return" ELSE "Lock"]
    /\ UNCHANGED <<middlewareVars, onceM, pending, observed, loads>>
    /\ UNCHANGED <<calledWith, pureVars>>

\* doSlow: o.m.Lock()
Lock(g) ==
    /\ pc[g] = "Lock"
    /\ onceM = 0
    /\ onceM' = g
    /\ pc' = [pc EXCEPT ![g] = "doSlow"]
    /\ UNCHANGED <<middlewareVars, pending, observed, loads>>
    /\ UNCHANGED <<calledWith, pureVars>>

\* doSlow: `if o.done.Load() == 0 { defer o.done.Store(1); f() }`
DoSlow(g) ==
    /\ pc[g] = "doSlow"
    /\ pc' = [pc EXCEPT ![g] = IF doSlow(cloudflareOnce) THEN "load" ELSE "Unlock"]
    /\ UNCHANGED <<middlewareVars, onceM, pending, observed, loads>>
    /\ UNCHANGED <<calledWith, pureVars>>

\* f: loadCloudflareIPRanges() builds its local slice and returns it
Load(g) ==
    /\ pc[g] = "load"
    /\ pending' = loadCloudflareIPRanges(ipsFile)
    /\ loads' = loads + 1
    /\ pc' = [pc EXCEPT ![g] = "assign"]
    /\ UNCHANGED <<middlewareVars, onceM, observed>>
    /\ UNCHANGED <<calledWith, pureVars>>

\* f: `cloudflareRanges = ...`, one store of the returned slice
Assign(g) ==
    /\ pc[g] = "assign"
    /\ cloudflareRanges' = pending
    /\ pending' = Nil
    /\ pc' = [pc EXCEPT ![g] = "Store"]
    /\ UNCHANGED <<ipsFile, cloudflareOnce, cfHandler, ipwHandler, ctx, onceM,
                   observed, loads>>
    /\ UNCHANGED <<calledWith, pureVars>>

\* the deferred o.done.Store(1)
Store(g) ==
    /\ pc[g] = "Store"
    /\ cloudflareOnce' = TRUE
    /\ pc' = [pc EXCEPT ![g] = "Unlock"]
    /\ UNCHANGED <<ipsFile, cloudflareRanges, cfHandler, ipwHandler, ctx, onceM,
                   pending, observed, loads>>
    /\ UNCHANGED <<calledWith, pureVars>>

\* the deferred o.m.Unlock()
Unlock(g) ==
    /\ pc[g] = "Unlock"
    /\ onceM = g
    /\ onceM' = 0
    /\ pc' = [pc EXCEPT ![g] = "return"]
    /\ UNCHANGED <<middlewareVars, pending, observed, loads>>
    /\ UNCHANGED <<calledWith, pureVars>>

\* CloudflareIPWhitelist() returns the handler, and the handler's first
\* request reads the package variable
Return(g) ==
    /\ pc[g] = "return"
    /\ cfHandler' = TRUE
    /\ observed' = [observed EXCEPT ![g] = cloudflareRanges]
    /\ pc' = [pc EXCEPT ![g] = "serving"]
    /\ UNCHANGED <<ipsFile, cloudflareRanges, cloudflareOnce, ipwHandler, ctx,
                   onceM, pending, loads>>
    /\ UNCHANGED <<calledWith, pureVars>>

NextOnce ==
    \E g \in Callers :
        \/ Call(g)
        \/ Do(g)
        \/ Lock(g)
        \/ DoSlow(g)
        \/ Load(g)
        \/ Assign(g)
        \/ Store(g)
        \/ Unlock(g)
        \/ Return(g)

SpecOnce == Init /\ [][NextOnce]_vars

----------------------------------------------------------------------------
(* What the claims speak of, stated apart from the code's own loops *)

MinOf(S) == CHOOSE x \in S : \A y \in S : x <= y
MaxOf(S) == CHOOSE x \in S : \A y \in S : x >= y

\* the text before the first comma
Leftmost(s) ==
    LET commas == {i \in 1..Len(s) : s[i] = ","} IN
    IF commas = {} THEN s ELSE SubSeq(s, 1, MinOf(commas) - 1)

\* the text between the first and the last character that is no white space
Trimmed(s) ==
    LET solid == {i \in 1..Len(s) : ~IsSpace(s[i])} IN
    IF solid = {} THEN <<>> ELSE SubSeq(s, MinOf(solid), MaxOf(solid))

\* the precedence of the resolver
ExpectedIP(c) ==
    LET cfIP == c.headers["CF-Connecting-IP"]
        xff == c.headers["X-Forwarded-For"]
        xri == c.headers["X-Real-IP"]
    IN  CASE cfIP # <<>> -> cfIP
          [] cfIP = <<>> /\ xff # <<>> -> Trimmed(Leftmost(xff))
          [] cfIP = <<>> /\ xff = <<>> /\ xri # <<>> -> xri
          [] cfIP = <<>> /\ xff = <<>> /\ xri = <<>> -> c.peer

\* bit i (1 is the most significant) of a byte sequence
Bit(bytes, i) == (bytes[((i - 1) \div 8) + 1] \div Pow2(7 - ((i - 1) % 8))) % 2

PrefixLen(mask) == Cardinality({i \in 1..(8 * Len(mask)) : Bit(mask, i) = 1})

\* an address in the form of its family: 4 bytes or 16
Canonical(ip) == IF To4(ip) # Nil THEN To4(ip) ELSE ip

\* the address s names lies in the network: same family, same leading bits
Covers(network, s) ==
    LET a == Canonical(ParseIP(s)) IN
    /\ ParseIP(s) # Nil
    /\ Len(a) = Len(network.IP)
    /\ \A i \in 1..PrefixLen(network.Mask) : Bit(a, i) = Bit(network.IP, i)

InTable(s, table) == \E i \in 1..Len(table) : Covers(table[i], s)

\* s names an address of the allow-list of config
InAllowList(s, config) ==
    /\ ParseIP(s) # Nil
    /\ \/ \E i \in 1..Len(config.AllowedIPs) :
             /\ ParseIP(config.AllowedIPs[i]) # Nil
             /\ Canonical(ParseIP(config.AllowedIPs[i])) = Canonical(ParseIP(s))
       \/ \E i \in 1..Len(config.AllowedCIDRs) :
             /\ ParseCIDR(config.AllowedCIDRs[i]).ok
             /\ Covers(ParseCIDR(config.AllowedCIDRs[i]), s)

Served == ctx.route # "none"
ServedBy(route) == ctx.route = route
Denied == ctx.status = 403
NoEdgeHeader == ctx.headers["CF-Connecting-IP"] = <<>>
AllowListConfigured ==
    ipwHandler.config.AllowedIPs # <<>> \/ ipwHandler.config.AllowedCIDRs # <<>>

----------------------------------------------------------------------------
(* Lookups in a range table: isCloudflareIP and isCloudflareIPFromRanges    *)
(* applied to candidate strings and tables drawn from bounded sets          *)

\* the built-in literals in the order getCloudflareIPRanges parses them
BuiltInLiterals == ipv4Ranges \o ipv6Ranges

\* the literals a table is built from
LiteralsNamed(t) ==
    CASE t = "builtin" -> BuiltInLiterals
      [] t = "document" -> <<cidrMalformed, cidrFileV4, cidrFileV6>>

\* the table loaded from the document [not-a-cidr, 10.0.2.0/24] + [2400:cb00::/32]
DocumentTable == parseRanges(LiteralsNamed("document"))

TableNamed(t) ==
    CASE t = "nil" -> Nil
      [] t = "builtin" -> getCloudflareIPRanges
      [] t = "document" -> DocumentTable

\* how many of the highest and of the lowest host bits a candidate may have set
MaxHostBits == 2

\* the host bits the candidates set: the MaxHostBits highest and lowest ones
HostBitPositions(network) ==
    LET n == 8 * Len(network.Mask)
        ones == PrefixLen(network.Mask)
    IN  {j \in (ones + 1)..n : j <= ones + MaxHostBits \/ j > n - MaxHostBits}

\* the value of the bits of S that lie in byte k
RECURSIVE BitsInByte(_, _, _)
BitsInByte(S, k, b) ==
    IF b = 8 THEN 0
    ELSE (IF (8 * (k - 1) + b + 1) \in S THEN Pow2(7 - b) ELSE 0)
         + BitsInByte(S, k, b + 1)

\* the address with the bits of S set, on an address whose bits of S are 0
RECURSIVE SetBitsFrom(_, _, _)
SetBitsFrom(bytes, S, k) ==
    IF k > Len(bytes) THEN <<>>
    ELSE <<bytes[k] + BitsInByte(S, k, 0)>> \o SetBitsFrom(bytes, S, k + 1)

SetBits(bytes, S) == SetBitsFrom(bytes, S, 1)

\* the address after this one, the address before it: a byte changes when
\* every byte after it carries (is 255), or borrows (is 0)
RECURSIVE IncrementFrom(_, _)
IncrementFrom(bytes, k) ==
    IF k > Len(bytes) THEN <<>>
    ELSE <<IF \A i \in (k + 1)..Len(bytes) : bytes[i] = 255
           THEN (bytes[k] + 1) % 256 ELSE bytes[k]>>
         \o IncrementFrom(bytes, k + 1)

Increment(bytes) == IncrementFrom(bytes, 1)

RECURSIVE DecrementFrom(_, _)
DecrementFrom(bytes, k) ==
    IF k > Len(bytes) THEN <<>>
    ELSE <<IF \A i \in (k + 1)..Len(bytes) : bytes[i] = 0
           THEN (bytes[k] + 255) % 256 ELSE bytes[k]>>
         \o DecrementFrom(bytes, k + 1)

Decrement(bytes) == DecrementFrom(bytes, 1)

\* the last address of a network: every host bit set
RECURSIVE LastAddressFrom(_, _)
LastAddressFrom(network, k) ==
    IF k > Len(network.IP) THEN <<>>
    ELSE <<network.IP[k] + (255 - network.Mask[k])>> \o LastAddressFrom(network, k + 1)

LastAddress(network) == LastAddressFrom(network, 1)

\* an address written the way a header or a peer address carries it
RECURSIVE DecString(_)
DecString(n) ==
    IF n < 10 THEN <<DecChars[n + 1]>>
    ELSE DecString(n \div 10) \o <<DecChars[(n % 10) + 1]>>

HexDigit(n) == IF n < 10 THEN DecChars[n + 1] ELSE HexLowerChars[n - 9]

RECURSIVE HexString(_)
HexString(n) ==
    IF n < 16 THEN <<HexDigit(n)>>
    ELSE HexString(n \div 16) \o <<HexDigit(n % 16)>>

RECURSIVE FormatIPv4From(_, _)
FormatIPv4From(bytes, k) ==
    IF k = Len(bytes) THEN DecString(bytes[k])
    ELSE DecString(bytes[k]) \o <<".">> \o FormatIPv4From(bytes, k + 1)

RECURSIVE FormatIPv6From(_, _)
FormatIPv6From(bytes, k) ==
    LET group == HexString(256 * bytes[k] + bytes[k + 1]) IN
    IF k + 1 = Len(bytes) THEN group
    ELSE group \o <<":">> \o FormatIPv6From(bytes, k + 2)

FormatIP(bytes) ==
    IF Len(bytes) = 4 THEN FormatIPv4From(bytes, 1) ELSE FormatIPv6From(bytes, 1)

\* strings that are no IP address
MalformedIPs ==
    {sEmpty, sNotAnIP, ipThreeOctets, ipOctetOver, ipLeadingSpace, ipLeadingZero,
     ipZoned, ipBadHex, cidrEdge}

TableNames == {"nil", "builtin", "document"}

\* the candidates: for each range of the built-in table its base address
\* with some host bits set, the address before its base, the address after its
\* last one; and the strings that are no IP, against each table
InsideProbes(ranges) ==
    UNION {{[NoProbe EXCEPT !.kind = "inside", !.range = i, !.table = "builtin",
                            !.ranges = ranges,
                            !.ip = FormatIP(SetBits(ranges[i].IP, S))] :
               S \in SUBSET HostBitPositions(ranges[i])} :
           i \in 1..Len(ranges)}

BelowProbes(ranges) ==
    {[NoProbe EXCEPT !.kind = "below", !.range = i, !.table = "builtin",
                     !.ranges = ranges,
                     !.ip = FormatIP(Decrement(ranges[i].IP))] :
        i \in {j \in 1..Len(ranges) :
                  \E k \in 1..Len(ranges[j].IP) : ranges[j].IP[k] # 0}}

AboveProbes(ranges) ==
    {[NoProbe EXCEPT !.kind = "above", !.range = i, !.table = "builtin",
                     !.ranges = ranges,
                     !.ip = FormatIP(Increment(LastAddress(ranges[i])))] :
        i \in 1..Len(ranges)}

MalformedProbes ==
    {[NoProbe EXCEPT !.kind = "malformed", !.table = t, !.ranges = TableNamed(t),
                     !.ip = ip] :
        t \in TableNames, ip \in MalformedIPs}

ProbeInputs ==
    LET ranges == getCloudflareIPRanges IN
    InsideProbes(ranges) \cup BelowProbes(ranges) \cup AboveProbes(ranges)
        \cup MalformedProbes

\* how far the range list is rotated in the permuted lookups
MaxRotation == 2

\* permutation 0 reverses the list, permutation k rotates it left by k
RECURSIVE Reverse(_)
Reverse(seq) == IF seq = <<>> THEN <<>> ELSE Reverse(Tail(seq)) \o <<Head(seq)>>

Permute(table, k) ==
    IF k = 0 THEN Reverse(table)
    ELSE IF Len(table) = 0 THEN table
    ELSE LET r == k % Len(table) IN
         SubSeq(table, r + 1, Len(table)) \o SubSeq(table, 1, r)

InitTable ==
    /\ ipsFile = [set |-> FALSE, readable |-> FALSE, decodable |-> FALSE,
                  ipv4 |-> <<>>, ipv6 |-> <<>>]
    /\ cloudflareRanges = Nil
    /\ cloudflareOnce = FALSE
    /\ cfHandler = FALSE
    /\ ipwHandler = NoHandler
    /\ ctx = NoRequest
    /\ InitOnce
    /\ calledWith = NoCall
    /\ probe \in ProbeInputs
    /\ pagination = NoPagination
    /\ InitLib

\* both lookups are called with the candidate and its table
Lookup ==
    /\ probe.step = 0
    /\ probe' = [probe EXCEPT
                    !.step = 1,
                    !.found = isCloudflareIP(probe.ip, probe.ranges),
                    !.foundFromRanges =
                        isCloudflareIPFromRanges(probe.ip, probe.ranges)]
    /\ UNCHANGED <<middlewareVars, onceVars, loads, calledWith, pagination, libVars>>

\* the same call once more
LookupAgain ==
    /\ probe.step = 1
    /\ probe' = [probe EXCEPT
                    !.step = 2,
                    !.foundAgain = isCloudflareIP(probe.ip, probe.ranges)]
    /\ UNCHANGED <<middlewareVars, onceVars, loads, calledWith, pagination, libVars>>

\* the call on a table built once more from the same literals
LookupRebuilt ==
    /\ probe.step = 2
    /\ probe' = [probe EXCEPT
                    !.step = 3,
                    !.foundRebuilt =
                        isCloudflareIP(probe.ip,
                            IF probe.table = "nil" THEN Nil
                            ELSE parseRanges(LiteralsNamed(probe.table)))]
    /\ UNCHANGED <<middlewareVars, onceVars, loads, calledWith, pagination, libVars>>

\* the call on the table with its ranges in another order
LookupPermuted(k) ==
    /\ probe.step = 3
    /\ probe' = [probe EXCEPT
                    !.step = 4,
                    !.permutation = k,
                    !.foundPermuted =
                        isCloudflareIP(probe.ip, Permute(probe.ranges, k))]
    /\ UNCHANGED <<middlewareVars, onceVars, loads, calledWith, pagination, libVars>>

NextTable ==
    \/ Lookup
    \/ LookupAgain
    \/ LookupRebuilt
    \/ \E k \in 0..MaxRotation : LookupPermuted(k)

SpecTable == InitTable /\ [][NextTable]_vars

----------------------------------------------------------------------------
(* utils/pagination.go. A Go int is 64 bits wide: it is a sequence of 8     *)
(* bytes, most significant first, in two's complement                       *)

RECURSIVE Complement(_)
Complement(x) == IF x = <<>> THEN <<>> ELSE <<255 - Head(x)>> \o Complement(Tail(x))

\* the int of a number of small magnitude
RECURSIVE I64(_)
I64(n) ==
    IF n >= 0
    THEN <<0, 0, 0, 0, (n \div 16777216) % 256, (n \div 65536) % 256,
           (n \div 256) % 256, n % 256>>
    ELSE Complement(I64(-n - 1))

IsNeg64(x) == x[1] >= 128

\* x < y on bytes read as an unsigned number
RECURSIVE LessBytes(_, _)
LessBytes(x, y) ==
    IF x = <<>> THEN FALSE
    ELSE IF Head(x) # Head(y) THEN Head(x) < Head(y)
    ELSE LessBytes(Tail(x), Tail(y))

\* x < y on ints
Less64(x, y) ==
    IF IsNeg64(x) # IsNeg64(y) THEN IsNeg64(x) ELSE LessBytes(x, y)

\* byte k of an int, byte 0 the least significant
ByteOf(x, k) == x[8 - k]

\* x + y + carry: the carry out of byte k, and byte k of the sum
RECURSIVE AddCarry(_, _, _, _)
AddCarry(x, y, carry, k) ==
    IF k < 0 THEN carry
    ELSE (ByteOf(x, k) + ByteOf(y, k) + AddCarry(x, y, carry, k - 1)) \div 256

AddByteAt(x, y, carry, k) ==
    (ByteOf(x, k) + ByteOf(y, k) + AddCarry(x, y, carry, k - 1)) % 256

\* x + y + carry, wrapping at 2^64
AddBytes(x, y, carry) ==
    <<AddByteAt(x, y, carry, 7), AddByteAt(x, y, carry, 6),
      AddByteAt(x, y, carry, 5), AddByteAt(x, y, carry, 4),
      AddByteAt(x, y, carry, 3), AddByteAt(x, y, carry, 2),
      AddByteAt(x, y, carry, 1), AddByteAt(x, y, carry, 0)>>

Add64(x, y) == AddBytes(x, y, 0)

\* x - y, wrapping
Sub64(x, y) == AddBytes(x, Complement(y), 1)

\* x * y: the products of bytes that fall on byte k, from byte i of x on
RECURSIVE MulColumn(_, _, _, _)
MulColumn(x, y, k, i) ==
    IF i > k THEN 0
    ELSE ByteOf(x, i) * ByteOf(y, k - i) + MulColumn(x, y, k, i + 1)

\* x * y: the carry out of byte k, and byte k of the product
RECURSIVE MulCarry(_, _, _)
MulCarry(x, y, k) ==
    IF k < 0 THEN 0
    ELSE (MulColumn(x, y, k, 0) + MulCarry(x, y, k - 1)) \div 256

MulByteAt(x, y, k) == (MulColumn(x, y, k, 0) + MulCarry(x, y, k - 1)) % 256

\* x * y, wrapping at 2^64
Mul64(x, y) ==
    <<MulByteAt(x, y, 7), MulByteAt(x, y, 6), MulByteAt(x, y, 5),
      MulByteAt(x, y, 4), MulByteAt(x, y, 3), MulByteAt(x, y, 2),
      MulByteAt(x, y, 1), MulByteAt(x, y, 0)>>

\* Pagination.Validate
Validate(p) ==
    LET page == IF Less64(p.Page, I64(1)) THEN I64(1) ELSE p.Page
        perPage == IF Less64(p.PerPage, I64(1)) THEN I64(20) ELSE p.PerPage
        capped == IF Less64(I64(100), perPage) THEN I64(100) ELSE perPage
    IN  [p EXCEPT !.Page = page, !.PerPage = capped]

\* Pagination.Offset
Offset(p) == Mul64(Sub64(p.Page, I64(1)), p.PerPage)

\* Pagination.Limit
Limit(p) == p.PerPage

\* the largest and the smallest int
MaxInt64 == <<127, 255, 255, 255, 255, 255, 255, 255>>

MinInt64 == <<128, 0, 0, 0, 0, 0, 0, 0>>

\* 92233720368547759, the last page whose offset for 100 per page fits an int,
\* and 92233720368547760, the page after it
LastPageOf100 == <<1, 71, 174, 20, 122, 225, 71, 175>>

PageAfterLastOf100 == <<1, 71, 174, 20, 122, 225, 71, 176>>

\* the pages and page sizes of the model: the small ones from -MaxPage to
\* MaxPage and from -1 to MaxPerPage, and the extremes of int
MaxPage == 3

MaxPerPage == 101

I64Range(lo, hi) == {I64(n) : n \in lo..hi}

Pages ==
    I64Range(-MaxPage, MaxPage)
        \cup {MaxInt64, MinInt64, LastPageOf100, PageAfterLastOf100}

PerPages == I64Range(-1, MaxPerPage) \cup {MaxInt64, MinInt64}

\* how often Validate is called on one value
MaxValidations == 2

InitPagination ==
    /\ ipsFile = [set |-> FALSE, readable |-> FALSE, decodable |-> FALSE,
                  ipv4 |-> <<>>, ipv6 |-> <<>>]
    /\ cloudflareRanges = Nil
    /\ cloudflareOnce = FALSE
    /\ cfHandler = FALSE
    /\ ipwHandler = NoHandler
    /\ ctx = NoRequest
    /\ InitOnce
    /\ calledWith = NoCall
    /\ probe = NoProbe
    /\ InitLib
    /\ \E page \in Pages, perPage \in PerPages :
          pagination = [NoPagination EXCEPT
                           !.Page = page, !.PerPage = perPage,
                           !.given = <<page, perPage>>]

\* p.Validate()
CallValidate ==
    /\ pagination.validated < MaxValidations
    /\ ~pagination.queried
    /\ pagination' = [Validate(pagination) EXCEPT !.validated = @ + 1]
    /\ UNCHANGED <<middlewareVars, onceVars, loads, calledWith, probe, libVars>>

\* query.Offset(pagination.Offset()).Limit(pagination.Limit())
Paginate ==
    /\ ~pagination.queried
    /\ pagination' = [pagination EXCEPT !.queried = TRUE,
                                        !.offset = Offset(pagination),
                                        !.limit = Limit(pagination)]
    /\ UNCHANGED <<middlewareVars, onceVars, loads, calledWith, probe, libVars>>

NextPagination ==
    \/ CallValidate
    \/ Paginate

SpecPagination == InitPagination /\ [][NextPagination]_vars

----------------------------------------------------------------------------
(* utils/pagination.go: NewPaginationInfo                                   *)

\* -x, wrapping
Neg64(x) == AddBytes(Complement(x), I64(0), 1)

\* the number an int between 0 and 2^31 - 1 stands for
Small(x) == x[5] * 16777216 + x[6] * 65536 + x[7] * 256 + x[8]

\* long division of the bytes x, read as an unsigned number, by d: the
\* remainder after byte k from the left, and byte k of the quotient
RECURSIVE RemAt(_, _, _)
RemAt(x, d, k) == IF k = 0 THEN 0 ELSE (RemAt(x, d, k - 1) * 256 + x[k]) % d

QuoAt(x, d, k) == (RemAt(x, d, k - 1) * 256 + x[k]) \div d

DivBytes(x, d) ==
    <<QuoAt(x, d, 1), QuoAt(x, d, 2), QuoAt(x, d, 3), QuoAt(x, d, 4),
      QuoAt(x, d, 5), QuoAt(x, d, 6), QuoAt(x, d, 7), QuoAt(x, d, 8)>>

\* x / y on ints, for y # 0 of a magnitude below 2^23: the quotient of the
\* magnitudes with the sign of the operands, which truncates toward zero
Div64(x, y) ==
    LET ax == IF IsNeg64(x) THEN Neg64(x) ELSE x
        ay == IF IsNeg64(y) THEN Neg64(y) ELSE y
        q == DivBytes(ax, Small(ay))
    IN  IF IsNeg64(x) # IsNeg64(y) THEN Neg64(q) ELSE q

\* NewPaginationInfo; a PerPage of 0 is an integer division by zero, a panic
NewPaginationInfo(p, total) ==
    IF p.PerPage = I64(0)
    THEN [NoInfo EXCEPT !.made = TRUE, !.panicked = TRUE]
    ELSE LET totalPages ==
                 Div64(Sub64(Add64(total, p.PerPage), I64(1)), p.PerPage)
         IN  [NoInfo EXCEPT !.made = TRUE,
                            !.CurrentPage = p.Page,
                            !.PerPage = p.PerPage,
                            !.Total = total,
                            !.TotalPages = IF Less64(totalPages, I64(1)) THEN I64(1)
                                           ELSE totalPages]

\* 9223372036854775708, the last total for which total + 100 - 1 fits an int
LastTotalOf100 == <<127, 255, 255, 255, 255, 255, 255, 156>>

\* the totals of the model: the small ones, some around the multiples of the
\* page sizes, and the large ones
MaxTotal == 8

Totals ==
    I64Range(0, MaxTotal)
        \cup {I64(15), I64(99), I64(100), I64(101), I64(105), I64(200), I64(201)}
        \cup {LastTotalOf100, MaxInt64}

InfoPages == {I64(1), I64(5), MaxInt64}

InitInfo ==
    /\ ipsFile = [set |-> FALSE, readable |-> FALSE, decodable |-> FALSE,
                  ipv4 |-> <<>>, ipv6 |-> <<>>]
    /\ cloudflareRanges = Nil
    /\ cloudflareOnce = FALSE
    /\ cfHandler = FALSE
    /\ ipwHandler = NoHandler
    /\ ctx = NoRequest
    /\ InitOnce
    /\ calledWith = NoCall
    /\ probe = NoProbe
    /\ InitLib
    /\ \E page \in InfoPages, perPage \in I64Range(-1, MaxPerPage) :
          pagination = [NoPagination EXCEPT
                           !.Page = page, !.PerPage = perPage,
                           !.given = <<page, perPage>>]

\* info := utils.NewPaginationInfo(pagination, total)
CallNewPaginationInfo(total) ==
    /\ ~pagination.info.made
    /\ pagination' =
          [pagination EXCEPT
              !.info = [NewPaginationInfo(pagination, total) EXCEPT
                           !.p = [Page |-> pagination.Page,
                                  PerPage |-> pagination.PerPage,
                                  total |-> total,
                                  validated |-> pagination.validated]]]
    /\ UNCHANGED <<middlewareVars, onceVars, loads, calledWith, probe, libVars>>

NextInfo ==
    \/ CallValidate
    \/ \E total \in Totals : CallNewPaginationInfo(total)

SpecInfo == InitInfo /\ [][NextInfo]_vars

----------------------------------------------------------------------------
(* responses/codes.go: BuildResponseCode, ParseResponseCode. The codes stay *)
(* far below 2^31, so an int is a number here                               *)

\* the characters from '0' on: string(rune(n + '0')) and int(char - '0')
AsciiFrom0 ==
    <<"0", "1", "2", "3", "4", "5", "6", "7", "8", "9", ":", ";", "<", "=", ">", "?">>

RuneFrom0(n) == AsciiFrom0[n + 1]

MinusRune0(char) == (CHOOSE i \in 1..Len(AsciiFrom0) : AsciiFrom0[i] = char) - 1

\* for _, char := range codeStr { code = code*10 + int(char-'0') }
RECURSIVE CodeOfString(_, _, _)
CodeOfString(codeStr, i, code) ==
    IF i > Len(codeStr) THEN code
    ELSE CodeOfString(codeStr, i + 1, code * 10 + MinusRune0(codeStr[i]))

\* BuildResponseCode
BuildResponseCode(httpStatus, serviceCode, caseCode) ==
    LET httpStatusStr ==
            IF httpStatus < 10 THEN <<"0", "0", RuneFrom0(httpStatus)>>
            ELSE IF httpStatus < 100
            THEN <<"0", RuneFrom0(httpStatus \div 10), RuneFrom0(httpStatus % 10)>>
            ELSE <<RuneFrom0(httpStatus \div 100), RuneFrom0((httpStatus \div 10) % 10),
                   RuneFrom0(httpStatus % 10)>>
    IN  CodeOfString(httpStatusStr \o serviceCode \o caseCode, 1, 0)

\* for temp > 0 { codeStr = string(rune(temp%10+'0')) + codeStr; temp /= 10 }
RECURSIVE StringOfCode(_)
StringOfCode(temp) ==
    IF temp > 0 THEN StringOfCode(temp \div 10) \o <<RuneFrom0(temp % 10)>>
    ELSE <<>>

\* ParseResponseCode: <<httpStatus, serviceCode, caseCode>>
ParseResponseCode(code) ==
    LET codeStr == StringOfCode(code) IN
    IF Len(codeStr) >= 7
    THEN <<MinusRune0(codeStr[1]) * 100 + MinusRune0(codeStr[2]) * 10
               + MinusRune0(codeStr[3]),
           SubSeq(codeStr, 4, 5), SubSeq(codeStr, 6, 7)>>
    ELSE <<0, <<>>, <<>>>>

\* the statuses of the model: every one from 0 to MaxStatus
MaxStatus == 999

\* service codes and case codes: the first and the last of the package, and
\* the extremes of two digits
ServiceCodes == {<<"0", "0">>, <<"0", "1">>, <<"1", "8">>, <<"9", "9">>}

CaseCodes == {<<"0", "0">>, <<"0", "1">>, <<"6", "8">>, <<"9", "9">>}

InitCodes ==
    /\ ipsFile = [set |-> FALSE, readable |-> FALSE, decodable |-> FALSE,
                  ipv4 |-> <<>>, ipv6 |-> <<>>]
    /\ cloudflareRanges = Nil
    /\ cloudflareOnce = FALSE
    /\ cfHandler = FALSE
    /\ ipwHandler = NoHandler
    /\ ctx = NoRequest
    /\ InitOnce
    /\ calledWith = NoCall
    /\ probe = NoProbe
    /\ pagination = NoPagination
    /\ InitLibBut({"responses"})
    /\ \E httpStatus \in 0..MaxStatus, serviceCode \in ServiceCodes,
          caseCode \in CaseCodes :
          responseCode = [NoResponseCode EXCEPT !.httpStatus = httpStatus,
                                                !.serviceCode = serviceCode,
                                                !.caseCode = caseCode]

\* responseCode := BuildResponseCode(httpStatus, serviceCode, caseCode)
Build ==
    /\ responseCode.step = 0
    /\ responseCode' =
          [responseCode EXCEPT
              !.step = 1,
              !.code = BuildResponseCode(responseCode.httpStatus,
                                         responseCode.serviceCode,
                                         responseCode.caseCode)]
    /\ UNCHANGED <<middlewareVars, onceVars, loads, calledWith, probe, pagination,
                   jwtVars, verified, redisVars>>

\* ParseResponseCode(responseCode)
Parse ==
    /\ responseCode.step = 1
    /\ responseCode' = [responseCode EXCEPT
                           !.step = 2,
                           !.parsed = ParseResponseCode(responseCode.code)]
    /\ UNCHANGED <<middlewareVars, onceVars, loads, calledWith, probe, pagination,
                   jwtVars, verified, redisVars>>

NextCodes ==
    \/ Build
    \/ Parse

SpecCodes == InitCodes /\ [][NextCodes]_vars

----------------------------------------------------------------------------
(* utils/validator.go, package jwt. Time is counted in ticks of half a      *)
(* second, so that a NumericDate, which keeps whole seconds, can differ     *)
(* from the clock reading it was made of                                    *)

TicksPerSecond == 2

Second == TicksPerSecond

Minute == 60 * Second

Hour == 60 * Minute

\* strconv.Atoi on an optional sign and decimal digits
RECURSIVE DigitsValue(_, _, _)
DigitsValue(s, i, n) ==
    IF i > Len(s) THEN n ELSE DigitsValue(s, i + 1, n * 10 + DigitVal(s[i]))

AllDigits(s, from) == from <= Len(s) /\ \A i \in from..Len(s) : IsDigit(s[i])

Atoi(s) ==
    LET signed == s # <<>> /\ s[1] \in {"+", "-"}
        from == IF signed THEN 2 ELSE 1
    IN  IF AllDigits(s, from)
        THEN [ok |-> TRUE,
              n |-> (IF signed /\ s[1] = "-" THEN -1 ELSE 1) * DigitsValue(s, from, 0)]
        ELSE [ok |-> FALSE, n |-> 0]

\* time.ParseDuration on a string of an optional sign, decimal digits and one
\* of the units h, m, s; any other string of the model is no duration
ParseDuration(s) ==
    LET signed == s # <<>> /\ s[1] \in {"+", "-"}
        from == IF signed THEN 2 ELSE 1
        digits == SubSeq(s, 1, Len(s) - 1)
        unit == s[Len(s)]
    IN  IF Len(s) > from /\ unit \in {"h", "m", "s"} /\ AllDigits(digits, from)
        THEN [ok |-> TRUE,
              d |-> (IF signed /\ s[1] = "-" THEN -1 ELSE 1)
                        * DigitsValue(digits, from, 0)
                        * (CASE unit = "h" -> Hour [] unit = "m" -> Minute
                             [] unit = "s" -> Second)]
        ELSE [ok |-> FALSE, d |-> 0]

\* parseDurationOrHours
parseDurationOrHours(env, durationKey, hoursKey, defaultValue) ==
    LET v == TrimSpace(env[durationKey])
        h == TrimSpace(env[hoursKey])
    IN  IF v # <<>> /\ ParseDuration(v).ok /\ ParseDuration(v).d > 0
        THEN ParseDuration(v).d
        ELSE IF h # <<>> /\ Atoi(h).ok /\ Atoi(h).n > 0
        THEN Atoi(h).n * Hour
        ELSE defaultValue

\* parseDurationOrDays
parseDurationOrDays(env, durationKey, daysKey, defaultValue) ==
    LET v == TrimSpace(env[durationKey])
        n == TrimSpace(env[daysKey])
    IN  IF v # <<>> /\ ParseDuration(v).ok /\ ParseDuration(v).d > 0
        THEN ParseDuration(v).d
        ELSE IF n # <<>> /\ Atoi(n).ok /\ Atoi(n).n > 0
        THEN Atoi(n).n * 24 * Hour
        ELSE defaultValue

\* Init of package jwt, on the package state j
JwtInit(j) ==
    IF TrimSpace(j.env.JWT_SECRET) = <<>>
    THEN [j EXCEPT !.panicked = TRUE]
    ELSE [j EXCEPT
             !.jwtSecret = j.env.JWT_SECRET,
             !.accessTokenExpiry =
                 parseDurationOrHours(j.env, "JWT_ACCESS_TOKEN_EXPIRY",
                                      "JWT_ACCESS_TOKEN_EXPIRY_HOURS", Hour),
             !.refreshTokenExpiry =
                 parseDurationOrDays(j.env, "JWT_REFRESH_TOKEN_EXPIRY",
                                     "JWT_REFRESH_TOKEN_EXPIRY_DAYS", 7 * 24 * Hour)]

\* uuid.UUID.String: 16 bytes in hexadecimal, grouped 8-4-4-4-12
RECURSIVE UUIDStringFrom(_, _)
UUIDStringFrom(id, k) ==
    IF k > Len(id) THEN <<>>
    ELSE <<HexDigit(id[k] \div 16), HexDigit(id[k] % 16)>>
         \o (IF k \in {4, 6, 8, 10} THEN <<"-">> ELSE <<>>)
         \o UUIDStringFrom(id, k + 1)

UUIDString(id) == UUIDStringFrom(id, 1)

\* a byte that is no UTF-8, and the replacement character U+FFFD
InvalidByte == "0xFF"

ReplacementChar == "U+FFFD"

\* encoding/json on a string: a quote and a backslash are escaped, <, > and &
\* are written as \u00XX, a byte that is no UTF-8 is written as �
RECURSIVE MarshalString(_, _)
MarshalString(s, i) ==
    IF i > Len(s) THEN <<>>
    ELSE (CASE s[i] = "\"" -> <<"\\", "\"">>
            [] s[i] = "\\" -> <<"\\", "\\">>
            [] s[i] = "<" -> <<"\\", "u", "0", "0", "3", "c">>
            [] s[i] = ">" -> <<"\\", "u", "0", "0", "3", "e">>
            [] s[i] = "&" -> <<"\\", "u", "0", "0", "2", "6">>
            [] s[i] = InvalidByte -> <<"\\", "u", "f", "f", "f", "d">>
            [] OTHER -> <<s[i]>>)
         \o MarshalString(s, i + 1)

\* the character a \uXXXX escape of the model stands for
Unescape(hex) ==
    CASE hex = <<"0", "0", "3", "c">> -> "<"
      [] hex = <<"0", "0", "3", "e">> -> ">"
      [] hex = <<"0", "0", "2", "6">> -> "&"
      [] hex = <<"f", "f", "f", "d">> -> ReplacementChar

RECURSIVE UnmarshalString(_, _)
UnmarshalString(text, i) ==
    IF i > Len(text) THEN <<>>
    ELSE IF text[i] # "\\" THEN <<text[i]>> \o UnmarshalString(text, i + 1)
    ELSE IF text[i + 1] = "u"
    THEN <<Unescape(SubSeq(text, i + 2, i + 5))>> \o UnmarshalString(text, i + 6)
    ELSE <<text[i + 1]>> \o UnmarshalString(text, i + 2)

\* jwt.NewNumericDate: the time truncated to the second
NewNumericDate(t) == t - (t % Second)

\* the leeway of ValidateToken, and the 30 seconds NotBefore lies in the past
Leeway == 30 * Second

\* a token string: its segments, decoded as far as they decode. The signature
\* stands for the HMAC-SHA256 of header and payload under a key
EmptyString ==
    [parts |-> 1,
     header |-> [ok |-> FALSE, alg |-> "none"],
     payload |-> [ok |-> FALSE, uuid |-> <<>>, email |-> <<>>, name |-> <<>>,
                  exp |-> 0, iat |-> 0, nbf |-> 0],
     signature |-> [key |-> <<>>, alg |-> "none", payload |-> <<>>]]

\* header and payload signed with a key
HMAC(key, header, payload) == [key |-> key, alg |-> header.alg, payload |-> payload]

\* jwt.NewWithClaims(jwt.SigningMethodHS256, claims).SignedString(key)
SignedString(claims, key) ==
    LET header == [ok |-> TRUE, alg |-> "HS256"]
        payload == [ok |-> TRUE,
                    uuid |-> MarshalString(claims.UUID, 1),
                    email |-> MarshalString(claims.Email, 1),
                    name |-> MarshalString(claims.Name, 1),
                    exp |-> claims.ExpiresAt, iat |-> claims.IssuedAt,
                    nbf |-> claims.NotBefore]
    IN  [parts |-> 3, header |-> header, payload |-> payload,
         signature |-> HMAC(key, header, payload)]

\* GenerateTokenWithExpiry at the time t, on the package state j: the package
\* state it leaves and the token string it returns
GenerateTokenWithExpiry(j, id, email, name, expiry, t) ==
    LET j2 == IF Len(j.jwtSecret) = 0 THEN JwtInit(j) ELSE j
        claims == [UUID |-> UUIDString(id), Email |-> email, Name |-> name,
                   ExpiresAt |-> NewNumericDate(t + expiry),
                   IssuedAt |-> NewNumericDate(t),
                   NotBefore |-> NewNumericDate(t - 30 * Second)]
    IN  [jwt |-> j2,
         string |-> IF j2.panicked THEN EmptyString
                    ELSE SignedString(claims, j2.jwtSecret)]

\* the result of ValidateToken
Rejected(j, err) == [jwt |-> j, ok |-> FALSE, err |-> err, claims |-> <<>>]

\* ValidateToken that allows no leeway
ValidateToken_NoLeeway(j, tokenString, t) ==
    LET j2 == IF Len(j.jwtSecret) = 0 THEN JwtInit(j) ELSE j IN
    IF j2.panicked THEN Rejected(j2, "panic")
    ELSE IF tokenString.parts # 3 THEN Rejected(j2, "malformed")
    ELSE IF ~tokenString.header.ok \/ ~tokenString.payload.ok
    THEN Rejected(j2, "malformed")
    ELSE IF tokenString.header.alg \notin {"HS256", "HS384", "HS512", "none"}
    THEN Rejected(j2, "unverifiable")
    ELSE IF tokenString.header.alg \notin {"HS256"}
    THEN Rejected(j2, "signature is invalid")
    ELSE IF tokenString.signature #
                HMAC(j2.jwtSecret, tokenString.header, tokenString.payload)
    THEN Rejected(j2, "signature is invalid")
    ELSE IF ~(t < tokenString.payload.exp)
    THEN Rejected(j2, "expired")
    ELSE IF ~(t >= tokenString.payload.nbf)
    THEN Rejected(j2, "not valid yet")
    ELSE [jwt |-> j2, ok |-> TRUE, err |-> "none",
          claims |-> [UUID |-> UnmarshalString(tokenString.payload.uuid, 1),
                      Email |-> UnmarshalString(tokenString.payload.email, 1),
                      Name |-> UnmarshalString(tokenString.payload.name, 1)]]

\* ValidateToken at the time t, on the package state j: the package state it
\* leaves, and the claims or the error. jwt.ParseWithClaims splits the string,
\* decodes header and claims, looks the method up, checks it against the valid
\* methods, verifies the signature under the key and validates exp and nbf
\* with the leeway
ValidateToken(j, tokenString, t) ==
    LET j2 == IF Len(j.jwtSecret) = 0 THEN JwtInit(j) ELSE j IN
    IF j2.panicked THEN Rejected(j2, "panic")
    ELSE IF tokenString.parts # 3 THEN Rejected(j2, "malformed")
    ELSE IF ~tokenString.header.ok \/ ~tokenString.payload.ok
    THEN Rejected(j2, "malformed")
    ELSE IF tokenString.header.alg \notin {"HS256", "HS384", "HS512", "none"}
    THEN Rejected(j2, "unverifiable")
    ELSE IF tokenString.header.alg \notin {"HS256"}
    THEN Rejected(j2, "signature is invalid")
    ELSE IF tokenString.signature #
                HMAC(j2.jwtSecret, tokenString.header, tokenString.payload)
    THEN Rejected(j2, "signature is invalid")
    ELSE IF ~(t < tokenString.payload.exp + Leeway)
    THEN Rejected(j2, "expired")
    ELSE IF ~(t >= tokenString.payload.nbf - Leeway)
    THEN Rejected(j2, "not valid yet")
    ELSE [jwt |-> j2, ok |-> TRUE, err |-> "none",
          claims |-> [UUID |-> UnmarshalString(tokenString.payload.uuid, 1),
                      Email |-> UnmarshalString(tokenString.payload.email, 1),
                      Name |-> UnmarshalString(tokenString.payload.name, 1)]]

\* the environments of the model: JWT_SECRET alone; with a duration string;
\* with a duration string that is refused (not positive) and with hours and
\* days; and a JWT_SECRET of one blank
secretKey == <<"k", "1">>

otherSecretKey == <<"k", "2">>

JWTEnvs ==
    {[NoJWT.env EXCEPT !.JWT_SECRET = secretKey],
     [NoJWT.env EXCEPT !.JWT_SECRET = secretKey,
                       !.JWT_ACCESS_TOKEN_EXPIRY = <<"3", "0", "m">>],
     [NoJWT.env EXCEPT !.JWT_SECRET = secretKey,
                       !.JWT_ACCESS_TOKEN_EXPIRY = <<"-", "5", "m">>,
                       !.JWT_ACCESS_TOKEN_EXPIRY_HOURS = <<" ", "2">>,
                       !.JWT_REFRESH_TOKEN_EXPIRY_DAYS = <<"7">>],
     [NoJWT.env EXCEPT !.JWT_SECRET = <<" ">>]}

\* the users of the model: an ordinary one; the nil UUID with an empty email
\* and a name of characters that JSON escapes; one whose name holds a byte
\* that is no UTF-8
Identities ==
    {[id |-> <<18, 52, 86, 120, 154, 188, 222, 240, 1, 35, 69, 103, 137, 171, 205, 239>>,
      email |-> <<"a", "@", "b">>, name |-> <<"A", "l">>],
     [id |-> Zeros(16), email |-> <<>>, name |-> <<"<", "\"", "\\", "&">>],
     [id |-> Zeros(16), email |-> <<"a", "@", "b">>, name |-> <<"A", InvalidByte>>]}

\* the expiries GenerateTokenWithExpiry is called with: half a second, a
\* second, and an hour in the past
Expiries == {1, Second, -Hour}

\* the clock readings of the model, in ticks after the start: the start, half
\* a second later, and the readings around 30 seconds
StartTime == 500 * Second

Instants == {StartTime + e : e \in {0, 1, Leeway - 1, Leeway, Leeway + 1}}

\* the kinds of string ValidateToken is given: the token as returned; the same
\* claims signed with another secret; the token with another name in its
\* claims; the token with the method none and no signature; three segments
\* that decode to nothing ("invalid.token.string"); the empty string
Kinds == {"genuine", "otherSecret", "tampered", "algNone", "malformed", "empty"}

Presented(kind, string) ==
    CASE kind = "genuine" -> string
      [] kind = "otherSecret" ->
            [string EXCEPT !.signature =
                               HMAC(otherSecretKey, string.header, string.payload)]
      [] kind = "tampered" ->
            [string EXCEPT !.payload.name = <<"r", "o", "o", "t">>]
      [] kind = "algNone" ->
            [string EXCEPT !.header.alg = "none",
                           !.signature = [key |-> <<>>, alg |-> "none",
                                          payload |-> string.payload]]
      [] kind = "malformed" -> [EmptyString EXCEPT !.parts = 3]
      [] kind = "empty" -> EmptyString

InitJWT ==
    /\ ipsFile = [set |-> FALSE, readable |-> FALSE, decodable |-> FALSE,
                  ipv4 |-> <<>>, ipv6 |-> <<>>]
    /\ cloudflareRanges = Nil
    /\ cloudflareOnce = FALSE
    /\ cfHandler = FALSE
    /\ ipwHandler = NoHandler
    /\ ctx = NoRequest
    /\ InitOnce
    /\ calledWith = NoCall
    /\ probe = NoProbe
    /\ pagination = NoPagination
    /\ InitLibBut({"jwt"})
    /\ \E env \in JWTEnvs : jwt = [NoJWT EXCEPT !.env = env]
    /\ now = StartTime
    /\ token = NoToken
    /\ validation = NoValidation

\* what no action of package jwt changes
jwtFrame ==
    <<middlewareVars, onceVars, loads, calledWith, probe, pagination, responseCode,
      verified, redisVars>>

\* jwt.Init()
CallInit ==
    /\ ~jwt.panicked
    /\ jwt' = JwtInit(jwt)
    /\ validation' = NoValidation
    /\ UNCHANGED <<jwtFrame, now, token>>

\* jwt.GetSecret()
CallGetSecret ==
    /\ ~jwt.panicked
    /\ jwt' = IF Len(jwt.jwtSecret) = 0 THEN JwtInit(jwt) ELSE jwt
    /\ validation' = NoValidation
    /\ UNCHANGED <<jwtFrame, now, token>>

\* jwt.GetAccessTokenExpiry()
CallGetAccessTokenExpiry ==
    /\ ~jwt.panicked
    /\ jwt' = IF jwt.accessTokenExpiry = 0 THEN JwtInit(jwt) ELSE jwt
    /\ validation' = NoValidation
    /\ UNCHANGED <<jwtFrame, now, token>>

\* the token record of a Generate call
Generated(by, user, expiry, result) ==
    [made |-> ~result.jwt.panicked, by |-> by, id |-> user.id, email |-> user.email,
     name |-> user.name, expiry |-> expiry, at |-> now, string |-> result.string]

\* jwt.GenerateTokenWithExpiry(id, email, name, expiry)
CallGenerateTokenWithExpiry(user, expiry) ==
    /\ ~jwt.panicked
    /\ LET result == GenerateTokenWithExpiry(jwt, user.id, user.email, user.name,
                                             expiry, now)
       IN  /\ jwt' = result.jwt
           /\ token' = Generated("GenerateTokenWithExpiry", user, expiry, result)
    /\ validation' = NoValidation
    /\ UNCHANGED <<jwtFrame, now>>

\* jwt.GenerateToken(id, email, name): the argument accessTokenExpiry is read
\* before GenerateTokenWithExpiry is entered
CallGenerateToken(user) ==
    /\ ~jwt.panicked
    /\ LET expiry == jwt.accessTokenExpiry
           result == GenerateTokenWithExpiry(jwt, user.id, user.email, user.name,
                                             expiry, now)
       IN  /\ jwt' = result.jwt
           /\ token' = Generated("GenerateToken", user, expiry, result)
    /\ validation' = NoValidation
    /\ UNCHANGED <<jwtFrame, now>>

\* jwt.GenerateRefreshToken(id, email, name)
CallGenerateRefreshToken(user) ==
    /\ ~jwt.panicked
    /\ LET j2 == IF jwt.refreshTokenExpiry = 0 THEN JwtInit(jwt) ELSE jwt
           expiry == j2.refreshTokenExpiry
           result == GenerateTokenWithExpiry(j2, user.id, user.email, user.name,
                                             expiry, now)
       IN  /\ jwt' = result.jwt
           /\ token' = Generated("GenerateRefreshToken", user, expiry, result)
    /\ validation' = NoValidation
    /\ UNCHANGED <<jwtFrame, now>>

\* jwt.ValidateToken(tokenString), on a string of one of the kinds
CallValidateToken(kind) ==
    /\ ~jwt.panicked
    /\ kind \in {"genuine", "otherSecret", "tampered", "algNone"} => token.made
    /\ LET result == ValidateToken(jwt, Presented(kind, token.string), now)
       IN  /\ jwt' = result.jwt
           /\ validation' = [done |-> TRUE, kind |-> kind, at |-> now,
                             ok |-> result.ok, err |-> result.err,
                             claims |-> result.claims]
    /\ UNCHANGED <<jwtFrame, now, token>>

\* time passes: the clock reads t at the next call
Advance(t) ==
    /\ ~jwt.panicked
    /\ t > now
    /\ now' = t
    /\ validation' = NoValidation
    /\ UNCHANGED <<jwtFrame, jwt, token>>

NextJWT ==
    \/ CallInit
    \/ CallGetSecret
    \/ CallGetAccessTokenExpiry
    \/ \E user \in Identities, expiry \in Expiries :
          CallGenerateTokenWithExpiry(user, expiry)
    \/ \E user \in Identities : CallGenerateToken(user)
    \/ \E user \in Identities : CallGenerateRefreshToken(user)
    \/ \E kind \in Kinds : CallValidateToken(kind)
    \/ \E t \in Instants : Advance(t)

SpecJWT == InitJWT /\ [][NextJWT]_vars

----------------------------------------------------------------------------
(* cloudflare.go: VerifyCloudflareRequest, called by the application's own  *)
(* handlers, on routes with or without one of the two middlewares           *)

\* VerifyCloudflareRequest; it reads the package variable, without
\* cloudflareOnce
VerifyCloudflareRequest(c) ==
    IF GetHeader(c, "CF-Connecting-IP") # <<>> THEN TRUE
    ELSE isCloudflareIPFromRanges(getRealIPFromContext(c), cloudflareRanges)

\* c.Next() on the chain of a route that neither middleware guards: the
\* application's handler alone, at index 0
NextUnguarded(c) == [Downstream([c EXCEPT !.index = 0]) EXCEPT !.index = 1]

\* the configurations of IPWhitelist on the routes of an application that
\* calls VerifyCloudflareRequest
VerifyConfigs ==
    {config \in Configs : /\ config.AllowedIPs = <<ipExact>>
                          /\ config.AllowedCIDRs = <<cidrMalformed, sEmpty, cidrEdge>>}

\* gin serves a request on a route that neither middleware guards (no
\* function of cloudflare.go reads CF-IPCountry or CF-Ray on such a route)
ServeUnguarded ==
    /\ ctx = NoRequest
    /\ \E cf \in CFConnectingIPs, xff \in XForwardedFors, xri \in XRealIPs,
          peer \in PeerAddrs :
          ctx' = NextUnguarded([NoRequest EXCEPT
                                   !.route = "unguarded",
                                   !.headers = MkHeaders(cf, xff, xri, sEmpty, sEmpty),
                                   !.peer = peer,
                                   !.handlers = <<"downstream">>])
    /\ UNCHANGED <<ipsFile, cloudflareRanges, cloudflareOnce, cfHandler, ipwHandler>>
    /\ UNCHANGED <<onceVars, loads>>
    /\ UNCHANGED <<calledWith, pureVars>>

\* VerifyCloudflareRequest(c) loading the ranges when it finds none
CallVerifyCloudflareRequest_LoadsRanges ==
    /\ ctx # NoRequest
    /\ cloudflareRanges' =
          IF cloudflareRanges = Nil THEN loadCloudflareIPRanges(ipsFile)
          ELSE cloudflareRanges
    /\ verified' = [called |-> TRUE,
                    result |-> \/ GetHeader(ctx, "CF-Connecting-IP") # <<>>
                               \/ isCloudflareIPFromRanges(getRealIPFromContext(ctx),
                                                           cloudflareRanges')]
    /\ UNCHANGED <<ipsFile, cloudflareOnce, cfHandler, ipwHandler, ctx>>
    /\ UNCHANGED <<onceVars, loads, calledWith, probe, pagination>>
    /\ UNCHANGED <<responseCode, jwtVars, redisVars>>

\* the application calls VerifyCloudflareRequest(c) for the request it serves
CallVerifyCloudflareRequest ==
    /\ ctx # NoRequest
    /\ verified' = [called |-> TRUE, result |-> VerifyCloudflareRequest(ctx)]
    /\ UNCHANGED <<middlewareVars, onceVars, loads, calledWith, probe, pagination>>
    /\ UNCHANGED <<responseCode, jwtVars, redisVars>>

NextVerify ==
    \/ CloudflareIPWhitelist
    \/ \E config \in VerifyConfigs : IPWhitelist(config)
    \/ ServeCloudflare
    \/ ServeIPWhitelist
    \/ ServeUnguarded
    \/ CallVerifyCloudflareRequest
    \/ Release

SpecVerify == Init /\ [][NextVerify]_vars

----------------------------------------------------------------------------
(* package redis: Setup, GetRedis *)

\* strconv.ParseBool
ParseBool(str) ==
    IF str \in {<<"1">>, <<"t">>, <<"T">>, <<"T", "R", "U", "E">>, <<"t", "r", "u", "e">>, <<"T", "r", "u", "e">>}
    THEN [ok |-> TRUE, b |-> TRUE]
    ELSE IF str \in {<<"0">>, <<"f">>, <<"F">>, <<"F", "A", "L", "S", "E">>, <<"f", "a", "l", "s", "e">>, <<"F", "a", "l", "s", "e">>}
    THEN [ok |-> TRUE, b |-> FALSE]
    ELSE [ok |-> FALSE, b |-> FALSE]

\* getEnv
getEnv(env, key, defaultValue) ==
    LET v == TrimSpace(env[key]) IN
    IF v # <<>> THEN v ELSE defaultValue

\* parseBoolEnv
parseBoolEnv(env, key, defaultValue) ==
    LET raw == TrimSpace(env[key]) IN
    IF raw = <<>> THEN defaultValue
    ELSE IF ParseBool(raw).ok THEN ParseBool(raw).b
    ELSE defaultValue

\* parseIntEnv
parseIntEnv(env, key, defaultValue) ==
    LET raw == TrimSpace(env[key]) IN
    IF raw = <<>> THEN defaultValue
    ELSE IF Atoi(raw).ok THEN Atoi(raw).n
    ELSE defaultValue

\* the client Setup makes when REDIS_ENABLED is true
NewClient(env) ==
    [Addr |-> getEnv(env, "REDIS_HOST", <<"l", "o", "c", "a", "l", "h", "o", "s", "t">>) \o <<":">>
                 \o getEnv(env, "REDIS_PORT", <<"6", "3", "7", "9">>),
     Password |-> env["REDIS_PASSWORD"],
     DB |-> parseIntEnv(env, "REDIS_DB", 0)]

\* Setup storing the new client before it pings the server
Setup_StoresBeforePing(r, env, pong) ==
    LET enabled == parseBoolEnv(env, "REDIS_ENABLED", FALSE)
        client == IF enabled THEN NewClient(env) ELSE Nil
    IN  IF enabled /\ ~pong THEN [rdb |-> client, err |-> "error"]
        ELSE [rdb |-> client, err |-> "nil"]

\* Setup, in a process whose rdb is r; pong tells whether the server answers
\* the Ping
Setup(r, env, pong) ==
    LET enabled == parseBoolEnv(env, "REDIS_ENABLED", FALSE)
        client == IF enabled THEN NewClient(env) ELSE Nil
    IN  IF enabled /\ ~pong THEN [rdb |-> r, err |-> "error"]
        ELSE [rdb |-> client, err |-> "nil"]

\* GetRedis
GetRedis(r) == IF r = Nil THEN "panic" ELSE "client"

\* the REDIS_* variables of a process: none; REDIS_ENABLED alone; every
\* variable; a REDIS_ENABLED that is no boolean; "false"; a REDIS_DB that is no
\* number and a blank REDIS_HOST
RedisEnvs ==
    { NoRedisEnv,
      [NoRedisEnv EXCEPT !.REDIS_ENABLED = <<"t", "r", "u", "e">>],
      [REDIS_ENABLED |-> <<" ", "1", " ">>, REDIS_HOST |-> <<"c", "a", "c", "h", "e">>,
       REDIS_PORT |-> <<"6", "3", "8", "0">>, REDIS_PASSWORD |-> <<"p", "w">>, REDIS_DB |-> <<"2">>],
      [NoRedisEnv EXCEPT !.REDIS_ENABLED = <<"y", "e", "s">>, !.REDIS_HOST = <<"c", "a", "c", "h", "e">>],
      [NoRedisEnv EXCEPT !.REDIS_ENABLED = <<"f", "a", "l", "s", "e">>],
      [NoRedisEnv EXCEPT !.REDIS_ENABLED = <<"T">>, !.REDIS_HOST = <<" ", " ">>,
                          !.REDIS_DB = <<"x">>] }

InitRedis ==
    /\ InitMiddleware
    /\ InitOnce
    /\ calledWith = NoCall
    /\ probe = NoProbe
    /\ pagination = NoPagination
    /\ InitLibBut({"redis"})
    /\ rdb = Nil
    /\ redis \in {[NoRedis EXCEPT !.env = env] : env \in RedisEnvs}

\* what no function of package redis changes
redisFrame ==
    <<middlewareVars, onceVars, loads, calledWith, probe, pagination, responseCode,
      jwtVars, verified>>

\* the environment is changed (os.Setenv) between two calls
Setenv(env) ==
    /\ env # redis.env
    /\ redis' = [redis EXCEPT !.env = env]
    /\ UNCHANGED <<redisFrame, rdb, lock>>

\* redis.Setup()
CallSetup(pong) ==
    /\ LET result == Setup(rdb, redis.env, pong) IN
       /\ rdb' = result.rdb
       /\ redis' = [redis EXCEPT !.setup = result.err,
                                 !.setupEnv = redis.env,
                                 !.before = rdb,
                                 !.succeeded = @ \/ result.err = "nil",
                                 !.got = "none"]
    /\ UNCHANGED <<redisFrame, lock>>

\* redis.GetRedis(); a panic is recovered by the caller
CallGetRedis ==
    /\ redis' = [redis EXCEPT !.got = GetRedis(rdb)]
    /\ UNCHANGED <<redisFrame, rdb, lock>>

NextRedis ==
    \/ \E env \in RedisEnvs : Setenv(env)
    \/ \E pong \in BOOLEAN : CallSetup(pong)
    \/ CallGetRedis

SpecRedis == InitRedis /\ [][NextRedis]_vars

----------------------------------------------------------------------------
(* package redis: AcquireLock, ExtendLock, ReleaseLock on one key, and the  *)
(* server that expires it                                                   *)

\* the longest expiration a client asks for, in ticks
MaxTTL == 2

\* expiration arguments; 0 asks for no expiry
Expirations == 0..MaxTTL

\* what an expiration leaves to count down
Remaining(expiration) == IF expiration = 0 THEN -1 ELSE expiration

\* the server's SET key value NX [EX expiration], sent by rdb.SetNX
SetNX(l, value, expiration) ==
    IF l.set THEN [lock |-> l, ok |-> FALSE]
    ELSE [lock |-> [l EXCEPT !.set = TRUE, !.value = value,
                             !.ttl = Remaining(expiration)],
          ok |-> TRUE]

\* the server's EXPIRE key expiration, sent by rdb.Expire
Expire(l, expiration) ==
    IF l.set THEN [l EXCEPT !.ttl = expiration] ELSE l

\* the server's DEL key, sent by rdb.Del; ReleaseLock passes no value, the
\* caller's is given for the record only
Del(l, value) == [l EXCEPT !.set = FALSE, !.value = 0, !.ttl = 0]

\* one tick less of a count-down
CountDown(n) == IF n > 0 THEN n - 1 ELSE n

\* client c takes itself to hold the lock: it has acquired it, has not
\* released it, and the expiration it asked for has not run out
Holds(c) == c \in lock.acquired /\ lock.lease[c] # 0

\* a connected client, as a successful Setup() leaves it
ConnectedClient ==
    NewClient([NoRedisEnv EXCEPT !.REDIS_ENABLED = <<"t", "r", "u", "e">>])

InitLock ==
    /\ InitMiddleware
    /\ InitOnce
    /\ calledWith = NoCall
    /\ probe = NoProbe
    /\ pagination = NoPagination
    /\ InitLibBut({"redis"})
    /\ rdb = ConnectedClient
    /\ redis = [NoRedis EXCEPT
                   !.env = [NoRedisEnv EXCEPT !.REDIS_ENABLED = <<"t", "r", "u", "e">>],
                   !.setupEnv = [NoRedisEnv EXCEPT
                                    !.REDIS_ENABLED = <<"t", "r", "u", "e">>],
                   !.setup = "nil", !.succeeded = TRUE]

\* client c calls AcquireLock(key, c, expiration)
AcquireLock(c, expiration) ==
    /\ rdb # Nil
    /\ ~Holds(c)
    /\ LET result == SetNX(lock, c, expiration) IN
       lock' = IF result.ok
               THEN [result.lock EXCEPT !.acquired = @ \cup {c},
                                        !.lease[c] = Remaining(expiration)]
               ELSE lock
    /\ UNCHANGED <<redisFrame, rdb, redis>>

\* client c, holding the lock, calls ExtendLock(key, expiration); the call
\* returns nil whether or not the key exists
ExtendLock(c, expiration) ==
    /\ rdb # Nil
    /\ Holds(c)
    /\ expiration > 0
    /\ lock' = [Expire(lock, expiration) EXCEPT !.lease[c] = expiration]
    /\ UNCHANGED <<redisFrame, rdb, redis>>

\* client c calls ReleaseLock(key), after an AcquireLock of its own returned
\* true
ReleaseLock(c) ==
    /\ rdb # Nil
    /\ c \in lock.acquired
    /\ lock' = [Del(lock, c) EXCEPT !.acquired = @ \ {c}, !.lease[c] = 0]
    /\ UNCHANGED <<redisFrame, rdb, redis>>

\* a tick passes: the server's time to live and the clients' expirations run
\* down, the server drops the key whose time is over
Tick ==
    /\ (lock.set /\ lock.ttl > 0) \/ (\E c \in Clients : lock.lease[c] > 0)
    /\ lock' = [lock EXCEPT
                   !.set = lock.set /\ lock.ttl # 1,
                   !.value = IF lock.set /\ lock.ttl # 1 THEN lock.value ELSE 0,
                   !.ttl = CountDown(lock.ttl),
                   !.lease = [c \in Clients |-> CountDown(lock.lease[c])]]
    /\ UNCHANGED <<redisFrame, rdb, redis>>

NextLock ==
    \/ \E c \in Clients, expiration \in Expirations : AcquireLock(c, expiration)
    \/ \E c \in Clients, expiration \in Expirations : ExtendLock(c, expiration)
    \/ \E c \in Clients : ReleaseLock(c)
    \/ Tick

SpecLock == InitLock /\ [][NextLock]_vars

----------------------------------------------------------------------------
(* Claims *)

\* C1: both resolvers return the CF-Connecting-IP value when it is not empty,
\* else the trimmed left-most X-Forwarded-For entry when that header is not
\* empty, else the X-Real-IP value when it is not empty, else the peer address;
\* the result is always one of these four, never a mix.
C1_ResolverPrecedence ==
    Served =>
        /\ ctx.realIP = ExpectedIP(ctx)
        /\ getRealIP(ctx) = ExpectedIP(ctx)
        /\ getRealIPFromContext(ctx) = ExpectedIP(ctx)
        /\ (NoEdgeHeader /\ ctx.headers["X-Forwarded-For"] = xffChain)
              => ctx.realIP = ipInCIDR
        /\ ctx.headers["CF-Connecting-IP"] = ipEdge => ctx.realIP = ipEdge

C1_Witness ==
    /\ ServedBy("IPWhitelist")
    /\ NoEdgeHeader
    /\ ctx.headers["X-Forwarded-For"] = xffChain
    /\ ctx.headers["X-Real-IP"] # <<>>
    /\ ctx.realIP = ipInCIDR

\* C2: CloudflareIPWhitelist denies a request exactly when it has no
\* CF-Connecting-IP header and its resolved IP is in no range of the edge
\* table; with the header the request is allowed whatever its resolved IP.
C2_EdgeOnlyDecision ==
    ServedBy("CloudflareIPWhitelist") =>
        /\ (Denied /\ ~ctx.handled)
              <=> (NoEdgeHeader /\ ~InTable(ctx.realIP, cloudflareRanges))
        /\ ~NoEdgeHeader => (ctx.handled /\ ctx.status = 200)
        /\ ctx.handled <=> ~Denied

C2_Witness ==
    /\ ServedBy("CloudflareIPWhitelist")
    /\ ctx.headers["CF-Connecting-IP"] = ipExact
    /\ ~InTable(ctx.realIP, cloudflareRanges)
    /\ ctx.handled

\* C3 as claimed: with CloudflareOnly, IPWhitelist denies with the Cloudflare
\* reason exactly when the request has no CF-Connecting-IP header and its
\* resolved IP is in no edge range.
C3_Original ==
    (ServedBy("IPWhitelist") /\ ipwHandler.config.CloudflareOnly) =>
        ((Denied /\ ctx.body = MsgCloudflare)
            <=> (NoEdgeHeader /\ ~InTable(ctx.realIP, getCloudflareIPRanges)))

\* C3 as amended: with CloudflareOnly, IPWhitelist denies with the Cloudflare
\* reason exactly when the resolved IP is in no range of the built-in edge
\* table; the CF-Connecting-IP header gives no bypass.
C3_EdgeCheckByRangeOnly ==
    (ServedBy("IPWhitelist") /\ ipwHandler.config.CloudflareOnly) =>
        /\ (Denied /\ ctx.body = MsgCloudflare /\ ~ctx.handled)
              <=> ~InTable(ctx.realIP, getCloudflareIPRanges)
        /\ ctx.handled => InTable(ctx.realIP, getCloudflareIPRanges)

C3_Witness ==
    /\ ServedBy("IPWhitelist")
    /\ ipwHandler.config.CloudflareOnly
    /\ ctx.headers["CF-Connecting-IP"] = ipExact
    /\ Denied
    /\ ctx.body = MsgCloudflare

\* C4 as claimed: a request whose resolved IP is no IP literal is denied by
\* both middlewares and never reaches the downstream handler.
C4_UnparsableAlwaysDenied ==
    (Served /\ ParseIP(ctx.realIP) = Nil) => (Denied /\ ~ctx.handled)

\* C5: the allow-list check of IPWhitelist lets a request through exactly when
\* its resolved IP is the address of an AllowedIPs entry or lies in a
\* well-formed AllowedCIDRs entry (10.0.0.5 and 10.0.1.9 pass, 10.0.0.6 and
\* 10.0.2.9 do not, under the lists of the claim).
C5_AllowListDecision ==
    (ServedBy("IPWhitelist") /\ ~(Denied /\ ctx.body = MsgCloudflare)) =>
        /\ ctx.handled <=> InAllowList(ctx.realIP, ipwHandler.config)
        /\ ~ctx.handled <=> (Denied /\ ctx.body = MsgNotWhitelisted)
        /\ (/\ ipwHandler.config.AllowedIPs = <<ipExact>>
            /\ ipwHandler.config.AllowedCIDRs = <<>>)
              => /\ ctx.realIP = ipExact => ctx.handled
                 /\ ctx.realIP = ipOther => ~ctx.handled
        /\ (/\ ipwHandler.config.AllowedIPs = <<>>
            /\ ipwHandler.config.AllowedCIDRs = <<cidrAllowed>>)
              => /\ ctx.realIP = ipInCIDR => ctx.handled
                 /\ ctx.realIP = ipOutCIDR => ~ctx.handled

C5_Witness ==
    /\ ServedBy("IPWhitelist")
    /\ ipwHandler.config.AllowedIPs = <<>>
    /\ ipwHandler.config.AllowedCIDRs = <<cidrAllowed>>
    /\ ctx.realIP = ipInCIDR
    /\ ctx.handled

\* C6 as claimed: with AllowedIPs and AllowedCIDRs both empty, IPWhitelist
\* denies no request as "IP not whitelisted".
C6_NoDenyWithoutAllowList ==
    (ServedBy("IPWhitelist") /\ ~AllowListConfigured) =>
        ~(Denied /\ ctx.body = MsgNotWhitelisted)

\* C7: with CloudflareOnly and an allow-list, a request reaches the downstream
\* handler only if its resolved IP is in an edge range and in the allow-list.
C7_BothChecksMustPass ==
    (/\ ServedBy("IPWhitelist")
     /\ ipwHandler.config.CloudflareOnly
     /\ AllowListConfigured
     /\ ctx.handled)
        => /\ InTable(ctx.realIP, getCloudflareIPRanges)
           /\ InAllowList(ctx.realIP, ipwHandler.config)

C7_Witness ==
    /\ ServedBy("IPWhitelist")
    /\ ipwHandler.config.CloudflareOnly
    /\ AllowListConfigured
    /\ ctx.handled

\* C8: a denied request ends with status 403 and an aborted chain: the
\* downstream handler has not run and no context key was written; and every
\* request that did not reach the downstream handler was denied in this way.
C8_DenyAborts ==
    Served =>
        /\ Denied => /\ ctx.index >= 63
                     /\ ~ctx.handled
                     /\ ctx.Keys = NoKeys
                     /\ ctx.seen = NoKeys
        /\ ~ctx.handled => Denied

C8_Witness ==
    /\ ServedBy("IPWhitelist")
    /\ Denied
    /\ ctx.body = MsgNotWhitelisted
    /\ ctx.index >= 63

\* C9: when the downstream handler runs, it finds under real_ip the address
\* the resolver returned for this request's headers and peer.
C9_RealIPStoredBeforeNext ==
    ctx.handled =>
        /\ "real_ip" \in DOMAIN ctx.seen
        /\ ctx.seen["real_ip"] = ExpectedIP(ctx)
        /\ ctx.seen["real_ip"] = ctx.realIP
        /\ ctx.Keys["real_ip"] = ctx.realIP

C9_Witness ==
    /\ ServedBy("IPWhitelist")
    /\ ctx.handled
    /\ ctx.headers["X-Forwarded-For"] = xffChain
    /\ "real_ip" \in DOMAIN ctx.seen
    /\ ctx.seen["real_ip"] = ipInCIDR

UnsetIpsFile ==
    [set |-> FALSE, readable |-> FALSE, decodable |-> FALSE,
     ipv4 |-> <<>>, ipv6 |-> <<>>]

\* the table loaded when the variable is unset
BuiltInWhenUnset == loadCloudflareIPRanges(UnsetIpsFile)

\* 173.245.48.0/20 and 2c0f:f248::/32, the first and the last built-in range
Net173_245_48_0_20 ==
    [ok |-> TRUE, IP |-> <<173, 245, 48, 0>>, Mask |-> <<255, 255, 240, 0>>]

Net2c0f_f248_32 ==
    [ok |-> TRUE,
     IP |-> <<44, 15, 242, 72, 0, 0, 0, 0, 0, 0, 0, 0, 0, 0, 0, 0>>,
     Mask |-> <<255, 255, 255, 255, 0, 0, 0, 0, 0, 0, 0, 0, 0, 0, 0, 0>>]

\* C12: when CLOUDFLARE_IPS_FILE is set and the file cannot be read or cannot
\* be decoded, the loaded table is the built-in list, the very table loaded
\* when the variable is unset, and requests are answered 200 or 403 as usual.
C12_FallbackToBuiltIn ==
    (cloudflareOnce /\ ipsFile.set /\ ~(ipsFile.readable /\ ipsFile.decodable)) =>
        /\ cloudflareRanges = BuiltInWhenUnset
        /\ Len(cloudflareRanges) = Len(ipv4Ranges) + Len(ipv6Ranges)
        /\ cloudflareRanges[1] = Net173_245_48_0_20
        /\ cloudflareRanges[Len(cloudflareRanges)] = Net2c0f_f248_32
        /\ ctx.status \in {200, 403}

\* the file is read but is no {ipv4, ipv6} document, and a request without the
\* edge header is let through because its IP lies in a built-in range
C12_Witness ==
    /\ ServedBy("CloudflareIPWhitelist")
    /\ ipsFile.set /\ ipsFile.readable /\ ~ipsFile.decodable
    /\ NoEdgeHeader
    /\ ctx.handled
    /\ InTable(ctx.realIP, getCloudflareIPRanges)

\* C13: the table loadCloudflareIPRanges has produced is never empty, whatever
\* CLOUDFLARE_IPS_FILE names and whatever the file holds.
C13_TableNeverEmpty ==
    cloudflareOnce => Len(cloudflareRanges) > 0

\* what net.ParseCIDR makes of each literal, in the order of the list
RECURSIVE ParseEach(_)
ParseEach(literals) ==
    IF literals = <<>> THEN <<>>
    ELSE <<ParseCIDR(Head(literals))>> \o ParseEach(Tail(literals))

\* table holds the prefixes of the well-formed literals, one entry for each,
\* and nothing else
ExactlyWellFormed(table, literals) ==
    LET parsed == ParseEach(literals)
        wellFormed == {i \in 1..Len(parsed) : parsed[i].ok}
    IN  /\ Len(table) = Cardinality(wellFormed)
        /\ {table[k] : k \in 1..Len(table)} = {parsed[i] : i \in wellFormed}

Net10_0_2_0_24 ==
    [ok |-> TRUE, IP |-> <<10, 0, 2, 0>>, Mask |-> <<255, 255, 255, 0>>]

Net2400_cb00_32 ==
    [ok |-> TRUE,
     IP |-> <<36, 0, 203, 0, 0, 0, 0, 0, 0, 0, 0, 0, 0, 0, 0, 0>>,
     Mask |-> <<255, 255, 255, 255, 0, 0, 0, 0, 0, 0, 0, 0, 0, 0, 0, 0>>]

Net173_245_48_0_24 ==
    [ok |-> TRUE, IP |-> <<173, 245, 48, 0>>, Mask |-> <<255, 255, 255, 0>>]

\* C14: a malformed CIDR literal is skipped and construction goes on: the
\* table loaded from an external document, and the networks IPWhitelist
\* builds from AllowedCIDRs, hold exactly the prefixes of the well-formed
\* literals.
C14_MalformedSkipped ==
    /\ (cloudflareOnce /\ ipsFile.set /\ ipsFile.readable /\ ipsFile.decodable) =>
          ExactlyWellFormed(cloudflareRanges, ipsFile.ipv4 \o ipsFile.ipv6)
    /\ ipwHandler.installed =>
          ExactlyWellFormed(ipwHandler.allowedNetworks, ipwHandler.config.AllowedCIDRs)

\* both tables were built from lists that start with a malformed literal, and
\* a request from 10.0.2.9 is let through by the document's 10.0.2.0/24
C14_Witness ==
    /\ cloudflareOnce
    /\ ipsFile.ipv4 = <<cidrMalformed, cidrFileV4>>
    /\ cloudflareRanges = <<Net10_0_2_0_24, Net2400_cb00_32>>
    /\ ipwHandler.config.AllowedCIDRs = <<cidrMalformed, sEmpty, cidrEdge>>
    /\ ipwHandler.allowedNetworks = <<Net173_245_48_0_24>>
    /\ ServedBy("CloudflareIPWhitelist")
    /\ NoEdgeHeader
    /\ ctx.realIP = ipOutCIDR
    /\ ctx.handled

\* "104.16.0.0/13" and "104.24.0.0/14": the second begins where the first ends
cidr104_16 == <<"1", "0", "4", ".", "1", "6", ".", "0", ".", "0", "/", "1", "3">>

cidr104_24 == <<"1", "0", "4", ".", "2", "4", ".", "0", ".", "0", "/", "1", "4">>

\* the candidate lies next to its range and inside the neighbouring range
InNeighbourRange ==
    \/ probe.kind = "above" /\ BuiltInLiterals[probe.range] = cidr104_16
    \/ probe.kind = "below" /\ BuiltInLiterals[probe.range] = cidr104_24

\* C15 as stated: on the built-in table the lookup answers true for the base
\* address of every built-in range with any host bits set, and false for the
\* address before the base and for the address after the last one.
C15_Original ==
    probe.step >= 1 =>
        /\ probe.kind = "inside" => probe.found
        /\ probe.kind \in {"below", "above"} => ~probe.found

\* C15: on the built-in table the lookup answers true for the base address of
\* every built-in range with any host bits set; the address before the base
\* and the address after the last one are outside the range's own prefix, and
\* the table answers false for them except where they fall into the
\* neighbouring range (104.23.255.255 and 104.24.0.0).
C15_RangeBoundaries ==
    probe.step >= 1 =>
        /\ probe.kind = "inside" =>
              /\ probe.found
              /\ probe.foundFromRanges
              /\ Contains(getCloudflareIPRanges[probe.range], ParseIP(probe.ip))
        /\ probe.kind \in {"below", "above"} =>
              /\ ParseIP(probe.ip) # Nil
              /\ ~Contains(getCloudflareIPRanges[probe.range], ParseIP(probe.ip))
              /\ probe.found = InNeighbourRange
              /\ probe.foundFromRanges = InNeighbourRange

\* 2a06:98c6::3, in 2a06:98c0::/29 with its two highest and two lowest host
\* bits set, has been looked up
C15_Witness ==
    /\ probe.step >= 1
    /\ probe.kind = "inside"
    /\ BuiltInLiterals[probe.range] = ipv6Ranges[6]
    /\ ParseIP(probe.ip) =
          <<42, 6, 152, 198, 0, 0, 0, 0, 0, 0, 0, 0, 0, 0, 0, 3>>
    /\ probe.found

\* C16: membership is a test on the set of ranges: the answer is that of "some
\* range of the table covers the address", the same on a second call, on a
\* table built once more from the same literals, and on the table with its
\* ranges in another order.
C16_OrderIndependent ==
    /\ probe.step >= 1 => probe.found = InTable(probe.ip, TableNamed(probe.table))
    /\ probe.step >= 2 => probe.foundAgain = probe.found
    /\ probe.step >= 3 => probe.foundRebuilt = probe.found
    /\ probe.step >= 4 => probe.foundPermuted = probe.found

\* an address of the first built-in range was found in the list as written
\* and in the reversed list, where that range comes last
C16_Witness ==
    /\ probe.step = 4
    /\ probe.permutation = 0
    /\ probe.kind = "inside"
    /\ probe.range = 1
    /\ probe.found
    /\ probe.foundPermuted

\* C17: for a candidate string that is no IP address both lookups answer
\* false, on every table, the nil table included, and on every later call.
C17_MalformedNeverContained ==
    (probe.kind = "malformed" /\ probe.step >= 1) =>
        /\ ParseIP(probe.ip) = Nil
        /\ ~probe.found
        /\ ~probe.foundFromRanges
        /\ probe.step >= 2 => ~probe.foundAgain
        /\ probe.step >= 3 => ~probe.foundRebuilt
        /\ probe.step >= 4 => ~probe.foundPermuted

\* " 173.245.48.7", an edge address but for its leading blank, was looked up in
\* the built-in table
C17_Witness ==
    /\ probe.kind = "malformed"
    /\ probe.ip = ipLeadingSpace
    /\ probe.table = "builtin"
    /\ probe.step = 4
    /\ ~probe.foundFromRanges
    /\ InTable(TrimSpace(probe.ip), getCloudflareIPRanges)

\* the request was stopped by the middleware
Stopped(c) == c.route # "none" /\ ~c.handled

\* requests from each peer address, without headers, on the same route and
\* under the same policy as the request being served
OtherRequests ==
    {Next(NewContext(ctx.route, MkHeaders(<<>>, <<>>, <<>>, <<>>, <<>>), peer)) :
        peer \in PeerAddrs}

\* the check an IP that is no IP fails: the edge check where there is one
DenyBodyOfFirstCheck ==
    IF ServedBy("CloudflareIPWhitelist") \/ ipwHandler.config.CloudflareOnly
    THEN MsgCloudflare
    ELSE MsgNotWhitelisted

\* C18 as stated: a request stopped because its resolved IP is no IP gets
\* status 403 and the very body of any request stopped with a well-formed
\* IP under the same middleware and policy.
C18_Original ==
    (Stopped(ctx) /\ ParseIP(ctx.realIP) = Nil) =>
        /\ ctx.status = 403
        /\ \A d \in OtherRequests :
              (Stopped(d) /\ ParseIP(d.realIP) # Nil) =>
                  d.status = ctx.status /\ d.body = ctx.body

\* C18: a request stopped because its resolved IP is no IP gets status 403
\* and the body of the first check of its middleware, which is the status
\* and body of a request stopped at that check with a well-formed IP.
C18_MalformedDeniedAlike ==
    (Stopped(ctx) /\ ParseIP(ctx.realIP) = Nil) =>
        /\ ctx.status = 403
        /\ ctx.body = DenyBodyOfFirstCheck
        /\ \E d \in OtherRequests :
              /\ Stopped(d)
              /\ ParseIP(d.realIP) # Nil
              /\ d.status = ctx.status
              /\ d.body = ctx.body

\* IPWhitelist with CloudflareOnly and an allow-list stops a request whose
\* resolved IP is no IP, and would stop an edge address outside the allow-list
\* with the other body
C18_Witness ==
    /\ ServedBy("IPWhitelist")
    /\ ipwHandler.config.CloudflareOnly
    /\ Stopped(ctx)
    /\ ctx.realIP = sNotAnIP
    /\ ctx.body = MsgCloudflare
    /\ \E d \in OtherRequests :
          Stopped(d) /\ d.realIP = ipEdge /\ d.body = MsgNotWhitelisted

\* C19 as stated: once the document has changed and CloudflareIPWhitelist(),
\* the one operation that loads the table, has been called again, the table
\* is the one the new document yields.
C19_Original ==
    calledWith.called => cloudflareRanges = loadCloudflareIPRanges(calledWith.last)

\* C19: the table is loaded by the first CloudflareIPWhitelist() call and
\* stays what that call loaded, whatever the document becomes and however
\* often CloudflareIPWhitelist() is called again; edge-only decisions keep
\* using the ranges loaded first.
C19_LoadedOnceForAll ==
    /\ calledWith.called =>
          cloudflareRanges = loadCloudflareIPRanges(calledWith.first)
    /\ (ServedBy("CloudflareIPWhitelist") /\ NoEdgeHeader) =>
          (ctx.handled <=>
              InTable(ctx.realIP, loadCloudflareIPRanges(calledWith.first)))

\* the table was loaded with the variable unset, the variable then names a
\* document with 10.0.2.0/24, CloudflareIPWhitelist() was called again, and a
\* request from 10.0.2.9 is stopped all the same
C19_Witness ==
    /\ calledWith.called
    /\ ~calledWith.first.set
    /\ calledWith.last.ipv4 = <<cidrMalformed, cidrFileV4>>
    /\ ipsFile = calledWith.last
    /\ ServedBy("CloudflareIPWhitelist")
    /\ NoEdgeHeader
    /\ ctx.realIP = ipOutCIDR
    /\ Stopped(ctx)
    /\ InTable(ctx.realIP, loadCloudflareIPRanges(calledWith.last))

\* C20: after Validate, Page >= 1 and 1 <= PerPage <= 100 (a Page below 1
\* became 1, a PerPage below 1 became 20, a PerPage above 100 became 100,
\* values in range are unchanged), Validate changes nothing when called
\* again, Offset() is not negative and Limit() is PerPage.
C20_ValidateNormalises ==
    pagination.validated >= 1 =>
        /\ ~Less64(pagination.Page, I64(1))
        /\ ~Less64(pagination.PerPage, I64(1))
        /\ ~Less64(I64(100), pagination.PerPage)
        /\ pagination.Page =
              IF Less64(pagination.given[1], I64(1)) THEN I64(1)
              ELSE pagination.given[1]
        /\ pagination.PerPage =
              IF Less64(pagination.given[2], I64(1)) THEN I64(20)
              ELSE IF Less64(I64(100), pagination.given[2]) THEN I64(100)
              ELSE pagination.given[2]
        /\ Validate(pagination) = pagination
        /\ pagination.queried =>
              /\ ~IsNeg64(pagination.offset)
              /\ pagination.limit = pagination.PerPage

\* ceil(total / perPage) for a total >= 0 and a perPage from 1 to 100, by long
\* division: no sum is formed, nothing can wrap
CeilDiv(total, perPage) ==
    LET d == Small(perPage)
        q == DivBytes(total, d)
    IN  IF RemAt(total, d, 8) = 0 THEN q ELSE Add64(q, I64(1))

\* NewPaginationInfo was called with a validated PerPage and a total >= 0
InfoOfValidated ==
    /\ pagination.info.made
    /\ ~Less64(pagination.info.p.PerPage, I64(1))
    /\ ~Less64(I64(100), pagination.info.p.PerPage)
    /\ ~IsNeg64(pagination.info.p.total)

\* C21: for a total >= 0 and a PerPage from 1 to 100, NewPaginationInfo returns
\* TotalPages = max(1, ceil(total / PerPage)) and copies Page, PerPage and total
\* unchanged into CurrentPage, PerPage and Total.
C21_TotalPages ==
    InfoOfValidated =>
        /\ ~pagination.info.panicked
        /\ pagination.info.CurrentPage = pagination.info.p.Page
        /\ pagination.info.PerPage = pagination.info.p.PerPage
        /\ pagination.info.Total = pagination.info.p.total
        /\ pagination.info.TotalPages =
              LET pages == CeilDiv(pagination.info.p.total, pagination.info.p.PerPage)
              IN  IF Less64(pages, I64(1)) THEN I64(1) ELSE pages

\* the number a two-digit code is the decimal writing of
TwoDigits(s) == DigitVal(s[1]) * 10 + DigitVal(s[2])

\* C22: for every status from 0 to 999 and every two-digit service code and
\* case code, parsing the built code gives the status, the service code and
\* the case code back, and the built code is status*10000 + service*100 + case.
C22_CodeRoundTrip ==
    /\ responseCode.step >= 1 =>
          responseCode.code =
              responseCode.httpStatus * 10000
                  + TwoDigits(responseCode.serviceCode) * 100
                  + TwoDigits(responseCode.caseCode)
    /\ responseCode.step = 2 =>
          responseCode.parsed =
              <<responseCode.httpStatus, responseCode.serviceCode,
                responseCode.caseCode>>

\* the claims ValidateToken returned are those the token was generated with
SameClaims ==
    validation.claims =
        [UUID |-> UUIDString(token.id), Email |-> token.email, Name |-> token.name]

ValidUTF8(s) == \A i \in 1..Len(s) : s[i] # InvalidByte

\* the call was refused: an error and nil claims
Refused == ~validation.ok /\ validation.err # "none" /\ validation.claims = <<>>

\* the token was given back at once, as it was returned
GivenBackAtOnce ==
    /\ validation.done
    /\ validation.kind = "genuine"
    /\ validation.at = token.at

\* C23 as stated: a token generated with a positive expiry and validated under
\* the same secret is accepted and gives exactly the UUID, Email and Name it
\* was generated with; a token more than 30 seconds past its expiry, a token
\* signed with another secret and a malformed string are refused with an error
\* and nil claims.
C23_Original ==
    validation.done =>
        /\ (GivenBackAtOnce /\ token.expiry > 0) => (validation.ok /\ SameClaims)
        /\ (validation.kind = "genuine"
                /\ validation.at - token.string.payload.exp > Leeway) => Refused
        /\ validation.kind \in {"otherSecret", "malformed", "empty"} => Refused

\* C23: a token generated with a positive expiry and validated under the same
\* secret is accepted; it gives the UUID back, and the Email and the Name when
\* they are valid UTF-8 (a byte that is none comes back as U+FFFD). The token
\* is accepted as long as the clock is less than 30 seconds past its expiry
\* and refused from then on; a token signed with another secret, a token whose
\* claims were changed, a token of method none and a malformed string are
\* refused. Refused means an error and nil claims.
C23_JWTRoundTrip ==
    validation.done =>
        /\ (GivenBackAtOnce /\ token.expiry > 0) =>
              /\ validation.ok
              /\ validation.claims.UUID = UUIDString(token.id)
              /\ ValidUTF8(token.email) => validation.claims.Email = token.email
              /\ ValidUTF8(token.name) => validation.claims.Name = token.name
        /\ validation.kind = "genuine" =>
              /\ validation.ok = (validation.at < token.string.payload.exp + Leeway)
              /\ ~validation.ok => Refused
        /\ validation.kind \in {"otherSecret", "tampered", "algNone", "malformed",
                                "empty"} => Refused

\* a token of half a second, for the user whose name JSON escapes, was given
\* back at once and accepted with that name
C23_Witness ==
    /\ GivenBackAtOnce
    /\ token.by = "GenerateTokenWithExpiry"
    /\ token.expiry = 1
    /\ token.string.payload.exp <= validation.at
    /\ token.name = <<"<", "\"", "\\", "&">>
    /\ validation.ok
    /\ SameClaims

\* C24: once cloudflareOnce has run, no step writes the package's table; the
\* table is written only by the step in which cloudflareOnce runs; serving a
\* request through either middleware or through none, and calling
\* VerifyCloudflareRequest, leave the table and the handler's parsed
\* allowedNetworks as they were
C24_ReadOnlyAfterBuild ==
    [][/\ cloudflareOnce => cloudflareRanges' = cloudflareRanges
       /\ cloudflareRanges' # cloudflareRanges => ~cloudflareOnce /\ cloudflareOnce'
       /\ (ctx' # ctx \/ verified' # verified) =>
             /\ cloudflareRanges' = cloudflareRanges
             /\ ipwHandler'.allowedNetworks = ipwHandler.allowedNetworks
             /\ ipwHandler'.cloudflareIPs = ipwHandler.cloudflareIPs]_vars

\* both middlewares are built, the allow-list has a parsed network, a request
\* was denied by IPWhitelist and VerifyCloudflareRequest has been called for it
C24_Witness ==
    /\ cloudflareOnce
    /\ cfHandler
    /\ cloudflareRanges = loadCloudflareIPRanges(ipsFile)
    /\ ipwHandler.installed
    /\ ipwHandler.allowedNetworks # <<>>
    /\ ctx.route = "IPWhitelist"
    /\ ctx.status = 403
    /\ verified.called

\* the edge table of the process: the document CLOUDFLARE_IPS_FILE names, the
\* built-in list otherwise
EdgeTable == loadCloudflareIPRanges(ipsFile)

\* C25: whenever it is called, before the first CloudflareIPWhitelist() or
\* after it, VerifyCloudflareRequest returns true exactly when the request
\* has a CF-Connecting-IP header or its resolved IP lies in the edge table
C25_VerifyAsHandler ==
    [][verified' # verified =>
          (verified'.result <=>
              \/ GetHeader(ctx, "CF-Connecting-IP") # <<>>
              \/ isCloudflareIPFromRanges(getRealIPFromContext(ctx), EdgeTable))]_vars

\* the addresses both membership tests are asked about
Addresses == {ipEdge, ipOutCIDR, ipOther, ipExact, ipMapped, sNotAnIP, sEmpty}

\* C26: once both middlewares are built, whatever CLOUDFLARE_IPS_FILE names,
\* the edge test of IPWhitelist gives for every address the answer the edge
\* test of CloudflareIPWhitelist gives, and the two resolvers give the same
\* address for the request being served
C26_SameEdgeMembership ==
    (cfHandler /\ ipwHandler.installed) =>
        /\ \A ip \in Addresses :
              isCloudflareIP(ip, ipwHandler.cloudflareIPs)
                  = isCloudflareIPFromRanges(ip, cloudflareRanges)
        /\ getRealIP(ctx) = getRealIPFromContext(ctx)

\* C27: a served request without CF-Connecting-IP and with a non-empty
\* X-Forwarded-For is resolved, by both resolvers, to the trimmed text before
\* the first comma, whatever X-Real-IP and the peer address are; when that
\* text is empty (", 1.2.3.4") the resolved IP is the empty string and the
\* request is denied without reaching the downstream handler
C27_FirstEntryEvenEmpty ==
    (Served /\ NoEdgeHeader /\ ctx.headers["X-Forwarded-For"] # <<>>) =>
        LET first == Trimmed(Leftmost(ctx.headers["X-Forwarded-For"])) IN
        /\ ctx.realIP = first
        /\ \A xri \in XRealIPs, peer \in PeerAddrs :
              LET c == [ctx EXCEPT !.headers["X-Real-IP"] = xri, !.peer = peer] IN
              /\ getRealIP(c) = first
              /\ getRealIPFromContext(c) = first
        /\ ctx.headers["X-Forwarded-For"] = xffEmptyFirst =>
              /\ ctx.realIP = <<>>
              /\ ParseIP(ctx.realIP) = Nil
              /\ Denied
              /\ ~ctx.handled

\* ", 1.2.3.4" with an X-Real-IP header and an edge peer: resolved to the
\* empty string and denied by the edge-only middleware
C27_Witness ==
    /\ ServedBy("CloudflareIPWhitelist")
    /\ NoEdgeHeader
    /\ ctx.headers["X-Forwarded-For"] = xffEmptyFirst
    /\ ctx.headers["X-Real-IP"] = ipMapped
    /\ ctx.peer = ipEdge
    /\ ctx.realIP = <<>>
    /\ Denied

\* the access-token expiry the environment configures, one hour by default
ConfiguredAccessExpiry ==
    parseDurationOrHours(jwt.env, "JWT_ACCESS_TOKEN_EXPIRY",
                         "JWT_ACCESS_TOKEN_EXPIRY_HOURS", Hour)

\* C28: whatever calls of Init, GetSecret, GetAccessTokenExpiry, GenerateToken
\* and GenerateRefreshToken came before, none included, a token GenerateToken
\* has returned expires the configured access-token expiry after the instant
\* it was issued at
C28_AccessTokenExpiry ==
    (token.made /\ token.by = "GenerateToken") =>
        /\ token.string.payload.exp = NewNumericDate(token.at + ConfiguredAccessExpiry)
        /\ token.string.payload.iat = NewNumericDate(token.at)

\* REDIS_ENABLED read as true when Setup was last called
Enabled == parseBoolEnv(redis.setupEnv, "REDIS_ENABLED", FALSE)

C30_MutualExclusion ==
    Cardinality({c \in Clients : Holds(c)}) <= 1

====
